---- MODULE Spec2Model ----
(***************************************************************************)
(* A model of cloud/amazon/ec2.py: the ec2 module's provisioning,          *)
(* termination and exact-count reconciliation against an EC2 provider.     *)
(*                                                                         *)
(* The provider is a list of instances (in the order the provider returns  *)
(* them), each with a lifecycle state, the tag the count_tag filter looks  *)
(* for, the client token it was launched with and its reservation.  One    *)
(* invocation of the module is a walk of pc through main and the function  *)
(* it dispatches to; the provider moves pending / shutting-down instances  *)
(* on its own between the steps, and the clock advances at every sleep.    *)
(***************************************************************************)
EXTENDS Integers, Sequences, FiniteSets, TLC

VARIABLES
    insts,      \* the provider's instances, a sequence of instance records
    now,        \* time.time(), in seconds since the invocation started
    runs,       \* invocations started so far
    pc,         \* where the invocation is
    params,     \* module.params of the invocation
    calls,      \* provider operations issued by the invocation, in order
    ec,         \* locals of enforce_count
    ci,         \* locals of create_instances
    ti,         \* locals of terminate_instances
    out,        \* exit_json / fail_json of the invocation
    prev,       \* params and outcome of the previous invocation, and the
                \* tagged instances alive before the first one
    ss,         \* locals of startstop_instances
    spots,      \* the provider's spot instance requests
    ft          \* get_reservations taken alone: a tag specification and its filters

vars == <<insts, now, runs, pc, params, calls, ec, ci, ti, out, prev, ss, spots, ft>>

(***************************************************************************)
(* Bounds of the model.                                                    *)
(***************************************************************************)
MaxInst == 4          \* instances the provider can hold (capacity)
MaxPre == 2           \* instances that exist before the first invocation
MaxRuns == 2          \* invocations in one behaviour
MaxCount == 2         \* largest count / exact_count requested
MaxWaitTimeout == 6   \* the larger of the two wait_timeout values tried

(***************************************************************************)
(* Constants of the program.                                               *)
(***************************************************************************)
PollSleep == 5                  \* time.sleep(5) between two polls
RetrySleep == 1                 \* time.sleep(1) after a bad response
MAX_IOPS_TO_SIZE_RATIO == 30

None == "None"

(***************************************************************************)
(* Sequence helpers.                                                       *)
(***************************************************************************)
Range(s) == {s[k] : k \in DOMAIN s}

RECURSIVE Concat(_)
Concat(lists) ==
    IF lists = <<>> THEN <<>> ELSE Head(lists) \o Concat(Tail(lists))

Last(s) == s[Len(s)]

(***************************************************************************)
(* Instance identifiers.  The provider numbers instances in launch order;  *)
(* an identifier is the string of decimal digits of that number, and       *)
(* Python compares identifiers as strings, character by character.         *)
(***************************************************************************)
RECURSIVE Digits(_)
Digits(n) == IF n < 10 THEN <<n>> ELSE Append(Digits(n \div 10), n % 10)

InstanceId(k) == Digits(k + 8)

RECURSIVE StrLess(_, _)
StrLess(a, b) ==
    IF a = <<>> THEN b # <<>>
    ELSE IF b = <<>> THEN FALSE
    ELSE IF Head(a) # Head(b) THEN Head(a) < Head(b)
    ELSE StrLess(Tail(a), Tail(b))

\* sorted(ids): ascending in Python's string order
RECURSIVE SortedDescending(_)
SortedDescending(ids) ==
    IF ids = <<>> THEN <<>>
    ELSE LET m == CHOOSE x \in Range(ids) : \A y \in Range(ids) : ~StrLess(x, y)
         IN <<m>> \o SortedDescending(SelectSeq(ids, LAMBDA y : y # m))

RECURSIVE Sorted(_)
Sorted(ids) ==
    IF ids = <<>> THEN <<>>
    ELSE LET m == CHOOSE x \in Range(ids) : \A y \in Range(ids) : ~StrLess(y, x)
         IN <<m>> \o Sorted(SelectSeq(ids, LAMBDA y : y # m))

\* the instance an identifier names
IndexOf(id) == CHOOSE k \in 1..Len(insts) : InstanceId(k) = id

(***************************************************************************)
(* The provider: reads.                                                    *)
(***************************************************************************)
NoFilter == [state |-> None, tag |-> None, token |-> None]

Matches(k, ids, f) ==
    /\ ids = <<>> \/ InstanceId(k) \in Range(ids)
    /\ f.state = None \/ insts[k].state = f.state
    /\ f.tag = None \/ insts[k].tag
    /\ f.token = None \/ insts[k].token

\* boto's Instance object: the identifier and the state as read
Snapshot(k) == [id |-> InstanceId(k), state |-> insts[k].state]

\* ec2.get_all_instances(instance_ids, filters): the matching instances grouped
\* by reservation; an empty identifier list is no identifier filter
RECURSIVE ReservationsFrom(_, _, _)
ReservationsFrom(r, ids, f) ==
    IF r > MaxInst + MaxPre THEN <<>>
    ELSE LET idx == SelectSeq([k \in 1..Len(insts) |-> k],
                              LAMBDA k : insts[k].resv = r /\ Matches(k, ids, f))
             group == [j \in 1..Len(idx) |-> Snapshot(idx[j])]
         IN (IF group = <<>> THEN <<>> ELSE <<group>>) \o ReservationsFrom(r + 1, ids, f)

GetAllInstances(ids, f) == ReservationsFrom(1, ids, f)

Ids(snaps) == [j \in 1..Len(snaps) |-> snaps[j].id]

Call(op, ids, n) == [op |-> op, ids |-> ids, n |-> n]

Reads == {"get_all_instances", "get_all_subnets", "get_all_security_groups",
          "get_all_snapshots", "get_all_spot_instance_requests"}

Mutating(c) == c.op \notin Reads

(***************************************************************************)
(* The provider: writes.                                                   *)
(***************************************************************************)
\* ec2.terminate_instances([id]) for each identifier of ids
TerminateAll(world, ids) ==
    [k \in 1..Len(world) |->
        IF InstanceId(k) \in Range(ids)
        THEN [world[k] EXCEPT !.state = "shutting-down"]
        ELSE world[k]]


\* ec2.create_tags(ids, instance_tags): only the key count_tag looks for is kept
CreateTags(world, ids, tags) ==
    [k \in 1..Len(world) |->
        IF InstanceId(k) \in Range(ids) /\ tags = "a"
        THEN [world[k] EXCEPT !.tag = TRUE]
        ELSE world[k]]

NextReservation(world) ==
    IF world = <<>> THEN 1
    ELSE 1 + (CHOOSE r \in {world[k].resv : k \in 1..Len(world)} :
                 \A k \in 1..Len(world) : world[k].resv <= r)

NewInstance(token, resv) ==
    [state |-> "pending", tag |-> FALSE, token |-> token, resv |-> resv,
     sourceDestCheck |-> TRUE, disableApiTermination |-> FALSE]

\* inst.start(), inst.stop() accepted whatever the state
RefusedNever(state) == FALSE

\* inst.start(), inst.stop(): refused for an instance that is terminated or
\* shutting down
Refused(state) == state \in {"terminated", "shutting-down"}

StartInstance(world, k) ==
    [world EXCEPT ![k].state = IF @ = "stopped" THEN "pending" ELSE @]

StopInstance(world, k) ==
    [world EXCEPT ![k].state = IF @ \in {"running", "pending"} THEN "stopping" ELSE @]

(***************************************************************************)
(* get_reservations: from a tag specification to the provider's filters.   *)
(* A Python value is a record of its type and, by type, the string, the    *)
(* list or the dictionary it holds; a string that ast.literal_eval parses  *)
(* names the type of its literal, which the list or dict field holds.      *)
(* A dictionary is a function from keys to None or to a string.            *)
(***************************************************************************)
EmptyDict == [k \in {} |-> None]

Str(x) == [type |-> "str", str |-> x, list |-> <<>>, dict |-> EmptyDict,
           literal |-> None]

List(items) == [type |-> "list", str |-> "", list |-> items, dict |-> EmptyDict,
                literal |-> None]

Dict(d) == [type |-> "dict", str |-> "", list |-> <<>>, dict |-> d, literal |-> None]

\* the string "['foo']", which is the literal of a list
ListLiteral(items) == [List(items) EXCEPT !.type = "str", !.str = "[...]",
                                          !.literal = "list"]

\* ast.literal_eval(tags) in its try block: a string that is no literal is kept
LiteralEval(t) ==
    IF t.type = "str" /\ t.literal # None THEN [t EXCEPT !.type = t.literal] ELSE t

\* _set_none_to_blank(dictionary)
SetNoneToBlank(d) == [k \in DOMAIN d |-> IF d[k] = None \/ d[k] = "" THEN "" ELSE d[k]]

\* filters.update(other)
DictUpdate(f, g) ==
    [n \in DOMAIN f \cup DOMAIN g |-> IF n \in DOMAIN g THEN g[n] ELSE f[n]]

\* {"tag-key": x}
TagKey(x) == [n \in {<<"tag-key">>} |-> x]

\* dict(("tag:"+tn, tv) for (tn,tv) in x.iteritems()) of the blanked dictionary
TagValues(d) == [n \in {<<"tag", k>> : k \in DOMAIN d} |-> SetNoneToBlank(d)[n[2]]]

\* the loop over a list of tags
RECURSIVE ListFilters(_, _)
ListFilters(items, filters) ==
    IF items = <<>> THEN filters
    ELSE LET x == Head(items)
         IN ListFilters(Tail(items),
                        IF x.type = "dict" THEN DictUpdate(filters, TagValues(x.dict))
                        ELSE DictUpdate(filters, TagKey(x.str)))

\* the filters get_reservations hands to ec2.get_all_instances
GetFilters(tags, state) ==
    LET t == LiteralEval(tags)
        f1 == IF t.type = "str" THEN TagKey(t.str) ELSE EmptyDict
        f2 == IF t.type = "list" THEN ListFilters(t.list, f1) ELSE f1
        f3 == IF t.type = "dict" THEN DictUpdate(f2, TagValues(t.dict)) ELSE f2
    IN IF state # None
       THEN DictUpdate(f3, [n \in {<<"instance-state-name">>} |-> state])
       ELSE f3

\* the provider's reading of the filters: every one of them must hold
FilterMatches(inst, filters) ==
    \A n \in DOMAIN filters :
        IF n = <<"tag-key">> THEN filters[n] \in DOMAIN inst.tags
        ELSE IF n = <<"instance-state-name">> THEN inst.state = filters[n]
        ELSE n[2] \in DOMAIN inst.tags /\ inst.tags[n[2]] = filters[n]

\* what a tag specification asks for, as the module's documentation reads it:
\* a key alone, or a key without a value, asks for the key to exist; a key
\* with a value asks for that value
RECURSIVE ListIntent(_)
ListIntent(items) ==
    IF items = <<>> THEN {}
    ELSE LET x == Head(items)
         IN (IF x.type = "dict"
             THEN {[key |-> k, value |-> x.dict[k]] : k \in DOMAIN x.dict}
             ELSE {[key |-> x.str, value |-> None]}) \cup ListIntent(Tail(items))

Intent(tags) ==
    LET t == LiteralEval(tags)
    IN IF t.type = "str" THEN {[key |-> t.str, value |-> None]}
       ELSE IF t.type = "list" THEN ListIntent(t.list)
       ELSE {[key |-> k, value |-> t.dict[k]] : k \in DOMAIN t.dict}

\* the keys and values tried
TagKeys == {"foo", "baz"}

Dicts == UNION { [K -> {None, "bar"}] : K \in (SUBSET TagKeys) \ {{}} }

Items == {Str(k) : k \in TagKeys} \cup
         {Dict(d) : d \in {e \in Dicts : Cardinality(DOMAIN e) = 1}}

TagSpecs ==
    {Str(k) : k \in TagKeys}
    \cup {ListLiteral(<<Str("foo")>>)}
    \cup {List(<<x>>) : x \in Items}
    \cup {List(<<x, y>>) : x \in Items, y \in Items}
    \cup {Dict(d) : d \in Dicts}

\* the tags an instance may carry
InstanceTags == UNION { [K -> {"", "bar"}] : K \in SUBSET TagKeys }

(***************************************************************************)
(* Outcomes of an invocation.                                              *)
(***************************************************************************)
\* named: the identifiers a failure message names
NoOut == [kind |-> "none", msg |-> "", changed |-> FALSE, instance_ids |-> <<>>,
          instances |-> <<>>, tagged_instances |-> <<>>, named |-> <<>>]

Failure(msg) == [NoOut EXCEPT !.kind = "failed", !.msg = msg]

Result(changed, ids, instances, tagged) ==
    [kind |-> "result", msg |-> "", changed |-> changed, instance_ids |-> ids,
     instances |-> instances, tagged_instances |-> tagged, named |-> <<>>]

\* the keyword arguments of run_instances / request_spot_instances that the
\* claims speak of: whether tenancy is passed, the network interface
\* specification (None, or built with or without private_ip_address), and
\* whether private_ip_address is passed with an address
NoRequest == [submitted |-> FALSE, tenancy |-> FALSE, network_interfaces |-> None,
              private_ip_address |-> FALSE, client_token |-> None]

NoEc == [instances |-> <<>>, remove_ids |-> <<>>, matched |-> <<>>]

NoCi == [override_count |-> 0, running_instances |-> <<>>, count_remaining |-> 0,
         changed |-> FALSE, instids |-> <<>>, res |-> <<>>, res_list |-> <<>>,
         polled |-> FALSE, num_running |-> 0, deadline |-> 0, entry |-> 0,
         instance_dict_array |-> <<>>, created_instance_ids |-> <<>>,
         request |-> NoRequest, spot_res |-> <<>>, spot_req_inst_ids |-> <<>>,
         spot_deadline |-> 0, checks |-> 0]

NoTi == [instance_ids |-> <<>>, changed |-> FALSE, instance_dict_array |-> <<>>,
         terminated_instance_ids |-> <<>>, num_terminated |-> 0, deadline |-> 0,
         response |-> <<>>]

NoSs == [changed |-> FALSE, instance_dict_array |-> <<>>, deadline |-> 0]

NoFt == [tags |-> Str(""), other |-> Str(""), filters |-> EmptyDict,
         other_filters |-> EmptyDict, done |-> TRUE,
         instance |-> [state |-> "running", tags |-> EmptyDict]]



(***************************************************************************)
(* module.params.  A volume is a dictionary; a key that is absent is       *)
(* FALSE (flags), -1 (numbers) or None (strings).                          *)
(***************************************************************************)
NoVolume == [device_name |-> TRUE, snapshot |-> FALSE, ephemeral |-> FALSE,
             volume_size |-> -1, volume_type |-> None, device_type |-> None,
             iops |-> -1, encrypted |-> FALSE]

Volumes ==
    { [NoVolume EXCEPT !.volume_size = 10],
      [NoVolume EXCEPT !.device_name = FALSE, !.volume_size = 10],
      NoVolume,
      [NoVolume EXCEPT !.snapshot = TRUE, !.ephemeral = TRUE],
      [NoVolume EXCEPT !.snapshot = TRUE, !.ephemeral = TRUE, !.volume_size = 0],
      [NoVolume EXCEPT !.snapshot = TRUE, !.ephemeral = TRUE, !.iops = 10],
      [NoVolume EXCEPT !.snapshot = TRUE, !.volume_type = "io1"],
      [NoVolume EXCEPT !.snapshot = TRUE, !.volume_type = "io1", !.iops = 30],
      [NoVolume EXCEPT !.snapshot = TRUE, !.volume_type = "io1", !.iops = 31],
      [NoVolume EXCEPT !.snapshot = TRUE, !.volume_type = "io1", !.iops = 61,
                       !.volume_size = 2],
      [NoVolume EXCEPT !.snapshot = TRUE, !.encrypted = TRUE],
      [NoVolume EXCEPT !.volume_size = 10, !.volume_type = "gp2",
                       !.device_type = "gp2"] }

\* what the installed boto supports: boto_supports_profile_name_arg,
\* boto_supports_associate_public_ip_address and
\* boto_supports_param_in_spot_request(ec2, 'placement_group')
AllSupported ==
    [profile_name |-> TRUE, associate_public_ip_address |-> TRUE,
     spot_placement_group |-> TRUE]

Defaults ==
    [mode |-> "create", instance_ids |-> <<>>, exact_count |-> 0, count |-> 1,
     count_tag |-> None, instance_tags |-> None, id |-> None,
     wait |-> FALSE, wait_timeout |-> MaxWaitTimeout,
     group |-> FALSE, group_id |-> FALSE, vpc_subnet_id |-> FALSE,
     assign_public_ip |-> FALSE, volumes |-> <<>>,
     spot_price |-> FALSE, spot_wait_timeout |-> MaxWaitTimeout,
     private_ip |-> FALSE,
     ids_is_list |-> TRUE, source_dest_check |-> TRUE,
     termination_protection |-> FALSE,
     instance_profile_name |-> FALSE, placement_group |-> FALSE,
     boto |-> AllSupported]

\* wait and wait_timeout: the timeout is read only when wait is set
Waits == {<<FALSE, 1>>, <<TRUE, 1>>, <<TRUE, MaxWaitTimeout>>}

\* the request-building parameters tried: each combination of the network
\* parameters, and each volume with and without a security group
Requests ==
    { r \in [group : BOOLEAN, group_id : BOOLEAN, vpc_subnet_id : BOOLEAN,
             assign_public_ip : BOOLEAN, volumes : {<<>>} \cup {<<v>> : v \in Volumes}] :
        \/ r.volumes = <<>>
        \/ ~r.group_id /\ ~r.vpc_subnet_id /\ ~r.assign_public_ip }

DefaultRequest(p) ==
    /\ ~p.group /\ ~p.group_id /\ ~p.vpc_subnet_id /\ ~p.assign_public_ip
    /\ p.volumes = <<>>

\* the identifier lists state=absent is tried with: the existing instances'
\* identifiers, in the provider's order
RECURSIVE SubSeqs(_)
SubSeqs(s) ==
    IF s = <<>> THEN {<<>>}
    ELSE LET rest == SubSeqs(Tail(s))
         IN rest \cup {<<Head(s)>> \o t : t \in rest}

AbsentParams ==
    { [Defaults EXCEPT !.mode = "absent", !.instance_ids = ids,
                       !.wait = w[1], !.wait_timeout = w[2]] :
        ids \in SubSeqs([k \in 1..Len(insts) |-> InstanceId(k)]), w \in Waits }

ExactParams ==
    { [Defaults EXCEPT !.mode = "exact", !.exact_count = t, !.count_tag = ct,
                       !.instance_tags = it, !.id = id,
                       !.wait = w[1], !.wait_timeout = w[2]] :
        t \in 0..MaxCount, ct \in {None, "a"}, it \in {None, "a"},
        id \in {None, "tok"}, w \in Waits }

CreateParams ==
    { p \in { [Defaults EXCEPT !.count = c, !.instance_tags = it, !.id = id,
                               !.wait = w[1], !.wait_timeout = w[2],
                               !.group = r.group, !.group_id = r.group_id,
                               !.vpc_subnet_id = r.vpc_subnet_id,
                               !.assign_public_ip = r.assign_public_ip,
                               !.volumes = r.volumes] :
                c \in 1..MaxCount, it \in {None, "a"}, id \in {None, "tok"},
                w \in Waits, r \in Requests } :
        DefaultRequest(p) \/ (p.count = 1 /\ ~p.wait /\ p.instance_tags = None) }

ParamSpace == AbsentParams \cup ExactParams \cup CreateParams

\* the spot requests tried
SpotParams ==
    { [Defaults EXCEPT !.spot_price = TRUE, !.count = c, !.id = id,
                       !.wait = w[1], !.wait_timeout = w[2],
                       !.spot_wait_timeout = sw, !.private_ip = ip,
                       !.vpc_subnet_id = net[1], !.assign_public_ip = net[2],
                       !.source_dest_check = ~attr,
                       !.termination_protection = attr] :
        c \in 1..MaxCount, id \in {None, "tok"}, w \in Waits,
        sw \in {1, MaxWaitTimeout}, ip \in BOOLEAN, attr \in BOOLEAN,
        net \in {<<FALSE, FALSE>>, <<TRUE, FALSE>>, <<TRUE, TRUE>>} }

(***************************************************************************)
(* The initial fleet: instances left by earlier runs or by other users.    *)
(* Instances that carry the client token come from one run_instances call  *)
(* and so share a reservation.                                             *)
(***************************************************************************)
Kinds ==
    { [state |-> "running", tag |-> TRUE, token |-> FALSE],
      [state |-> "running", tag |-> TRUE, token |-> TRUE],
      [state |-> "running", tag |-> FALSE, token |-> TRUE],
      [state |-> "running", tag |-> FALSE, token |-> FALSE],
      [state |-> "stopped", tag |-> TRUE, token |-> FALSE],
      [state |-> "terminated", tag |-> TRUE, token |-> FALSE] }

Fleets ==
    UNION { { [k \in 1..n |-> [state |-> f[k].state, tag |-> f[k].tag,
                               token |-> f[k].token,
                               resv |-> IF grouped THEN 1 ELSE k,
                               sourceDestCheck |-> TRUE,
                               disableApiTermination |-> FALSE]] :
                f \in [1..n -> Kinds], grouped \in BOOLEAN } : n \in 0..MaxPre }

OneTokenReservation(world) ==
    \A j, k \in 1..Len(world) :
        world[j].token /\ world[k].token => world[j].resv = world[k].resv

\* the instances of the fleet that carry the tag and are pending or running
PendingOrRunning(world) ==
    SelectSeq(world, LAMBDA i : i.tag /\ i.state \in {"pending", "running"})

\* no invocation has run
Idle ==
    /\ now = 0
    /\ runs = 0
    /\ pc = "idle"
    /\ params = Defaults
    /\ calls = <<>>
    /\ ec = NoEc
    /\ ci = NoCi
    /\ ti = NoTi
    /\ out = NoOut
    /\ prev = [params |-> Defaults, kind |-> "none", changed |-> FALSE,
               instance_ids |-> <<>>, matched |-> 0]
    /\ ss = NoSs

Init ==
    /\ insts \in {w \in Fleets : OneTokenReservation(w)}
    /\ Idle
    /\ spots = <<>>
    /\ ft = NoFt

Start(p) ==
    /\ pc \in {"idle", "done", "failed"}
    /\ runs < MaxRuns
    /\ runs' = runs + 1
    /\ params' = p
    /\ prev' = [params |-> params, kind |-> out.kind, changed |-> out.changed,
                 instance_ids |-> out.instance_ids,
                 matched |-> IF runs = 0 THEN Len(PendingOrRunning(insts))
                             ELSE prev.matched]
    /\ pc' = "main"
    /\ now' = 0
    /\ calls' = <<>>
    /\ ec' = NoEc
    /\ ci' = NoCi
    /\ ti' = NoTi
    /\ out' = NoOut
    /\ ss' = NoSs
    /\ UNCHANGED insts
    /\ UNCHANGED <<spots, ft>>

\* the module is run
Invoke == runs = 0 /\ \E p \in ParamSpace : Start(p)

\* the same task is run again
Reinvoke == runs > 0 /\ Start(params)

\* module.fail_json(msg)
Fail(msg) ==
    /\ pc' = "failed"
    /\ out' = Failure(msg)

\* main(): dispatch on state and exact_count
Main ==
    /\ pc = "main"
    /\ UNCHANGED <<ss, spots, ft>>
    /\ UNCHANGED <<insts, now, runs, params, calls, ec, ci, prev>>
    /\ IF params.mode = "absent"
       THEN IF params.instance_ids = <<>>
            THEN Fail("instance_ids list is required for absent state")
                 /\ UNCHANGED ti
            ELSE /\ pc' = "terminate"
                 /\ ti' = [NoTi EXCEPT !.instance_ids = params.instance_ids]
                 /\ UNCHANGED out
       ELSE IF params.mode \in {"running", "stopped"}
       THEN IF ~(params.ids_is_list \/ params.instance_tags # None)
            THEN Fail("running list needs to be a list of instances or set of tags to run")
                 /\ UNCHANGED ti
            ELSE pc' = "startstop" /\ UNCHANGED <<ti, out>>
       ELSE /\ pc' = IF params.mode = "exact" THEN "enforce" ELSE "create"
            /\ UNCHANGED <<ti, out>>


\* a read issued again in a retry loop is logged once
Log(c) == IF calls # <<>> /\ Last(calls) = c THEN calls ELSE Append(calls, c)

(***************************************************************************)
(* terminate_instances                                                     *)
(***************************************************************************)
\* only running instances are terminated
TerminableRunning(x) == x.state = "running"

Terminable(snap) == snap.state = "running" \/ snap.state = "stopped"

\* no filter on the state
AnyState == NoFilter

\* filters = {'instance-state-name': 'terminated'}
Terminated == [NoFilter EXCEPT !.state = "terminated"]

\* the return of terminate_instances, to main or to enforce_count
TerminateReturn(t) ==
    /\ ti' = t
    /\ IF params.mode = "exact"
       THEN pc' = "enforce_removed" /\ UNCHANGED out
       ELSE /\ pc' = "done"
            /\ out' = Result(t.changed, t.terminated_instance_ids,
                             t.instance_dict_array, <<>>)

\* ec2.terminate_instances([inst.id]) raises EC2ResponseError for an instance
\* that has disableApiTermination set: the place in hit of the first such
\* instance, 0 if there is none
FirstRefusal(world, hit) ==
    LET protected == {j \in 1..Len(hit) :
                        world[IndexOf(hit[j].id)].disableApiTermination}
    IN IF protected = {} THEN 0
       ELSE CHOOSE j \in protected : \A i \in protected : j <= i

\* the argument check, the read and the terminate loop
Terminate ==
    /\ pc = "terminate"
    /\ UNCHANGED <<ss, spots, ft>>
    /\ UNCHANGED <<now, runs, params, ec, ci, prev>>
    /\ IF Len(ti.instance_ids) < 1
       THEN /\ Fail("instance_ids should be a list of instances, aborting")
            /\ UNCHANGED <<insts, calls, ti>>
       ELSE LET read == Concat(GetAllInstances(ti.instance_ids, NoFilter))
                hit == SelectSeq(read, Terminable)
                stop == FirstRefusal(insts, hit)
                t == [ti EXCEPT !.terminated_instance_ids = Ids(hit),
                                !.instance_dict_array = hit,
                                !.changed = hit # <<>>,
                                !.num_terminated = 0,
                                !.deadline = now + params.wait_timeout]
            IN IF stop # 0
               THEN /\ calls' = calls \o <<Call("get_all_instances", ti.instance_ids, 0)>>
                          \o [j \in 1..stop |->
                                Call("terminate_instances", <<hit[j].id>>, 0)]
                    /\ insts' = TerminateAll(insts, Ids(SubSeq(hit, 1, stop - 1)))
                    /\ ti' = [ti EXCEPT
                                !.terminated_instance_ids = Ids(SubSeq(hit, 1, stop)),
                                !.instance_dict_array = SubSeq(hit, 1, stop),
                                !.changed = stop > 1]
                    /\ Fail("Unable to terminate instance")
               ELSE /\ calls' = calls \o <<Call("get_all_instances", ti.instance_ids, 0)>>
                          \o [j \in 1..Len(hit) |->
                                Call("terminate_instances", <<hit[j].id>>, 0)]
                    /\ insts' = TerminateAll(insts, Ids(hit))
                    /\ IF params.wait
                       THEN ti' = t /\ pc' = "terminate_wait" /\ UNCHANGED out
                       ELSE TerminateReturn(t)

\* one pass of the loop that waits for the instances to be terminated
TerminateWait ==
    /\ pc = "terminate_wait"
    /\ UNCHANGED <<ss, spots, ft>>
    /\ UNCHANGED <<insts, runs, params, ec, ci, out, prev>>
    /\ IF ti.deadline > now /\ ti.num_terminated < Len(ti.terminated_instance_ids)
       THEN LET response == GetAllInstances(ti.terminated_instance_ids, Terminated)
            IN /\ calls' = Append(calls, Call("get_all_instances",
                                              ti.terminated_instance_ids, 0))
               /\ pc' = pc
               /\ IF response = <<>>
                  THEN now' = now + RetrySleep /\ UNCHANGED ti
                  ELSE /\ ti' = [ti EXCEPT !.response = response,
                                          !.num_terminated = Len(Last(response))]
                       /\ now' = IF Len(Last(response)) < Len(ti.terminated_instance_ids)
                                 THEN now + PollSleep ELSE now
       ELSE /\ pc' = "terminate_check"
            /\ UNCHANGED <<now, calls, ti>>

\* the timeout check and the read of the terminated instances
TerminateCheck ==
    /\ pc = "terminate_check"
    /\ UNCHANGED <<ss, spots, ft>>
    /\ UNCHANGED <<insts, now, runs, params, ec, ci, prev>>
    /\ IF ti.deadline < now /\ ti.num_terminated < Len(ti.terminated_instance_ids)
       THEN /\ Fail("wait for instance termination timeout")
            /\ UNCHANGED <<calls, ti>>
       ELSE /\ calls' = Append(calls, Call("get_all_instances",
                                           ti.terminated_instance_ids, 0))
            /\ TerminateReturn(
                 [ti EXCEPT !.instance_dict_array =
                      Concat(GetAllInstances(ti.terminated_instance_ids, Terminated))])

(***************************************************************************)
(* enforce_count                                                           *)
(***************************************************************************)
\* the instances count_tag matches, whatever their state
FindAnyState(count_tag) ==
    Concat(GetAllInstances(<<>>, [NoFilter EXCEPT !.tag = count_tag]))

\* find_running_instances_by_count_tag
FindRunning(count_tag) ==
    Concat(GetAllInstances(<<>>, [NoFilter EXCEPT !.state = "running", !.tag = count_tag]))

\* the identifiers enforce_count hands to terminate_instances
RemoveIdsHighest(ids, to_remove) == SubSeq(SortedDescending(ids), 1, to_remove)

RemoveIdsOneShort(ids, to_remove) == SubSeq(Sorted(ids), 1, to_remove - 1)

RemoveIds(ids, to_remove) == SubSeq(Sorted(ids), 1, to_remove)

\* exact_count given without count_tag
MissingCountTag(p) == p.exact_count # 0 /\ p.count_tag = None

EnforceCount ==
    /\ pc = "enforce"
    /\ UNCHANGED <<ss, spots, ft>>
    /\ UNCHANGED <<insts, now, runs, params, prev>>
    /\ IF MissingCountTag(params)
       THEN /\ Fail("you must use the 'count_tag' option with exact_count")
            /\ UNCHANGED <<calls, ec, ci, ti>>
       ELSE LET instances == FindRunning(params.count_tag)
                read == Call("get_all_instances", <<>>, 0)
            IN /\ calls' = Append(calls, read)
               /\ IF Len(instances) = params.exact_count
                  THEN /\ ec' = [ec EXCEPT !.instances = instances, !.matched = instances]
                       /\ pc' = "done"
                       /\ out' = Result(FALSE, <<>>, <<>>, instances)
                       /\ UNCHANGED <<ci, ti>>
                  ELSE IF Len(instances) < params.exact_count
                  THEN /\ ec' = [ec EXCEPT !.instances = instances, !.matched = instances]
                       /\ ci' = [NoCi EXCEPT !.override_count =
                                     params.exact_count - Len(instances)]
                       /\ pc' = "create"
                       /\ UNCHANGED <<ti, out>>
                  ELSE LET remove_ids == RemoveIds(Ids(instances),
                                             Len(instances) - params.exact_count)
                       IN /\ ec' = [instances |-> SelectSeq(instances,
                                        LAMBDA x : x.id \notin Range(remove_ids)),
                                    remove_ids |-> remove_ids,
                                    matched |-> instances]
                          /\ ti' = [NoTi EXCEPT !.instance_ids = remove_ids]
                          /\ pc' = "terminate"
                          /\ UNCHANGED <<ci, out>>

\* after terminate_instances: the removed instances are reported terminated
EnforceRemoved ==
    /\ pc = "enforce_removed"
    /\ UNCHANGED <<ss, spots, ft>>
    /\ pc' = "done"
    /\ out' = Result(ti.changed,
                     ti.terminated_instance_ids,
                     [j \in 1..Len(ti.instance_dict_array) |->
                         [ti.instance_dict_array[j] EXCEPT !.state = "terminated"]],
                     ec.instances)
    /\ UNCHANGED <<insts, now, runs, params, calls, ec, ci, ti, prev>>

\* after create_instances: the new instances are appended to the matched ones
EnforceCreated ==
    /\ pc = "enforce_created"
    /\ UNCHANGED <<ss, spots, ft>>
    /\ pc' = "done"
    /\ ec' = [ec EXCEPT !.instances = ec.instances \o ci.instance_dict_array]
    /\ out' = Result(ci.changed, ci.created_instance_ids, ci.instance_dict_array,
                     ec.instances \o ci.instance_dict_array)
    /\ UNCHANGED <<insts, now, runs, params, calls, ci, ti, prev>>

(***************************************************************************)
(* startstop_instances                                                     *)
(***************************************************************************)
\* no filter built from instance_tags
TagFilterIgnored(instance_tags) == NoFilter

\* filters["tag:" + key] = value for each of instance_tags
TagFilter(instance_tags) ==
    IF instance_tags # None THEN [NoFilter EXCEPT !.tag = instance_tags] ELSE NoFilter

\* the instances the first loop goes through: the identifiers and the tag
\* filter together
SelectedByIds(instance_ids, instance_tags) ==
    Concat(GetAllInstances(instance_ids, NoFilter))

Selected(instance_ids, instance_tags) ==
    Concat(GetAllInstances(instance_ids, TagFilter(instance_tags)))

\* the body of the first loop for one instance: the two attributes, then the
\* state; st holds the fleet, the calls and the locals so far
AttributesAndState(st, inst, p) ==
    LET k == IndexOf(inst.id)
        sdc == st.world[k].sourceDestCheck # p.source_dest_check
        dat == st.world[k].disableApiTermination # p.termination_protection
        turn == inst.state # p.mode
        attrs == [st.world EXCEPT ![k].sourceDestCheck = p.source_dest_check,
                                  ![k].disableApiTermination = p.termination_protection]
        log == st.calls
               \o (IF sdc THEN <<Call("modify_attribute", <<inst.id>>, 0)>> ELSE <<>>)
               \o (IF dat THEN <<Call("modify_attribute", <<inst.id>>, 1)>> ELSE <<>>)
               \o (IF turn THEN <<Call(IF p.mode = "running" THEN "start" ELSE "stop",
                                        <<inst.id>>, 0)>> ELSE <<>>)
    IN IF st.error THEN st
       ELSE [world |-> IF ~turn \/ Refused(inst.state) THEN attrs
                       ELSE IF p.mode = "running" THEN StartInstance(attrs, k)
                       ELSE StopInstance(attrs, k),
             calls |-> log,
             instance_dict_array |-> IF turn THEN Append(st.instance_dict_array, inst)
                                     ELSE st.instance_dict_array,
             changed |-> st.changed \/ sdc \/ dat \/ (turn /\ ~Refused(inst.state)),
             error |-> turn /\ Refused(inst.state)]

RECURSIVE FirstLoop(_, _, _)
FirstLoop(st, found, p) ==
    IF found = <<>> THEN st
    ELSE FirstLoop(AttributesAndState(st, Head(found), p), Tail(found), p)

\* the return with changed true whatever was done
StartStopReturnChanged(s) ==
    /\ pc' = "done"
    /\ out' = Result(TRUE, params.instance_ids, s.instance_dict_array, <<>>)

\* the return of startstop_instances to main
StartStopReturn(s) ==
    /\ pc' = "done"
    /\ out' = Result(s.changed, params.instance_ids, s.instance_dict_array, <<>>)

\* the argument check, the read and the loop over the instances found
StartStop ==
    /\ pc = "startstop"
    /\ UNCHANGED <<now, runs, params, ec, ci, ti, prev, spots, ft>>
    /\ IF (~params.ids_is_list \/ Len(params.instance_ids) < 1)
          /\ params.instance_tags = None
       THEN /\ Fail("instance_ids should be a list of instances, aborting")
            /\ UNCHANGED <<insts, calls, ss>>
       ELSE LET found == Selected(params.instance_ids, params.instance_tags)
                st == FirstLoop([world |-> insts,
                                 calls |-> Append(calls, Call("get_all_instances",
                                                              params.instance_ids, 0)),
                                 instance_dict_array |-> <<>>,
                                 changed |-> FALSE, error |-> FALSE], found, params)
                s == [changed |-> st.changed,
                      instance_dict_array |-> st.instance_dict_array,
                      deadline |-> now + params.wait_timeout]
            IN /\ insts' = st.world
               /\ calls' = st.calls
               /\ ss' = s
               /\ IF st.error
                  THEN Fail("Unable to change state for instance")
                  ELSE IF params.wait
                  THEN pc' = "startstop_wait" /\ UNCHANGED out
                  ELSE StartStopReturn(s)

\* one pass of the loop that waits for the instances to reach the state
StartStopWait ==
    /\ pc = "startstop_wait"
    /\ UNCHANGED <<insts, runs, params, ec, ci, ti, prev, spots, ft>>
    /\ IF ss.deadline > now
       THEN LET read == Concat(GetAllInstances(params.instance_ids, NoFilter))
                matched_instances == SelectSeq(read, LAMBDA i : i.state = params.mode)
            IN /\ calls' = Log(Call("get_all_instances", params.instance_ids, 0))
               /\ ss' = [ss EXCEPT !.instance_dict_array = matched_instances]
               /\ IF ~params.ids_is_list
                  THEN /\ Fail("TypeError: object of type 'NoneType' has no len()")
                       /\ UNCHANGED now
                  ELSE IF Len(matched_instances) < Len(params.instance_ids)
                  THEN now' = now + PollSleep /\ UNCHANGED <<pc, out>>
                  ELSE pc' = "startstop_check" /\ UNCHANGED <<now, out>>
       ELSE /\ pc' = "startstop_check"
            /\ UNCHANGED <<now, calls, ss, out>>

\* the timeout check and the return
StartStopCheck ==
    /\ pc = "startstop_check"
    /\ UNCHANGED <<insts, now, runs, params, calls, ec, ci, ti, prev, ss, spots, ft>>
    /\ IF ss.deadline <= now
       THEN Fail("wait for instances running timeout")
       ELSE StartStopReturn(ss)

(***************************************************************************)
(* The provider's own steps.                                               *)
(***************************************************************************)
Settled(state) ==
    IF state = "pending" THEN "running"
    ELSE IF state = "shutting-down" THEN "terminated"
    ELSE IF state = "stopping" THEN "stopped"
    ELSE state

\* a pending instance starts running, a shutting-down instance is terminated,
\* a stopping instance is stopped
Progress ==
    /\ pc \notin {"done", "failed"}
    /\ UNCHANGED <<ss, spots, ft>>
    /\ \E k \in 1..Len(insts) :
          /\ Settled(insts[k].state) # insts[k].state
          /\ insts' = [insts EXCEPT ![k].state = Settled(insts[k].state)]
    /\ UNCHANGED <<now, runs, pc, params, calls, ec, ci, ti, out, prev>>


(***************************************************************************)
(* create_instances: the request                                           *)
(***************************************************************************)
\* snapshot.volume_size of the snapshot a volume names
SnapshotSize == 1

Ok == "ok"

\* create_block_device(volume): the failure message, or Ok, and whether
\* ec2.get_all_snapshots was called on the way
BlockDevice(v) ==
    LET volume_type == IF v.device_type # None THEN v.device_type ELSE v.volume_type
        size == IF v.volume_size # -1 THEN v.volume_size ELSE SnapshotSize
        before(msg) == [msg |-> msg, lookup |-> FALSE]
        after(msg) == [msg |-> msg, lookup |-> v.snapshot /\ v.iops # -1]
    IN IF v.device_type # None /\ v.volume_type # None
       THEN before("device_type is a deprecated name for volume_type. Do not use both device_type and volume_type")
       ELSE IF ~v.snapshot /\ ~v.ephemeral /\ v.volume_size = -1
       THEN before("Size must be specified when creating a new volume or modifying the root volume")
       ELSE IF v.snapshot /\ volume_type = "io1" /\ v.iops = -1
       THEN before("io1 volumes must have an iops value set")
       ELSE IF v.snapshot /\ v.iops # -1 /\ v.iops > MAX_IOPS_TO_SIZE_RATIO * size
       THEN after("IOPS must be at most 30 times greater than size")
       ELSE IF v.snapshot /\ v.encrypted
       THEN after("You can not set encyrption when creating a volume from a snapshot")
       ELSE IF v.ephemeral /\ v.snapshot
       THEN after("Cannot set both ephemeral and snapshot")
       ELSE after(Ok)

\* the loop over volumes: the first failure ends it
RECURSIVE BlockDevices(_)
BlockDevices(volumes) ==
    IF volumes = <<>> THEN [msg |-> Ok, lookups |-> <<>>]
    ELSE LET v == Head(volumes)
             skipped == v.volume_size # -1 /\ v.volume_size <= 0
             bd == BlockDevice(v)
             reads == IF ~skipped /\ bd.lookup
                      THEN <<Call("get_all_snapshots", <<>>, 0)>> ELSE <<>>
             rest == BlockDevices(Tail(volumes))
         IN IF ~v.device_name
            THEN [msg |-> "Device name must be set for volume", lookups |-> <<>>]
            ELSE IF ~skipped /\ bd.msg # Ok
            THEN [msg |-> bd.msg, lookups |-> reads]
            ELSE [msg |-> rest.msg, lookups |-> reads \o rest.lookups]

\* group and group_id are exclusive: checked before anything else
GroupConflictUnchecked(p) == FALSE

GroupConflict(p) == p.group_id /\ p.group

\* the lookups made before the request is built: subnet, security groups
Lookups(p) ==
    (IF p.vpc_subnet_id THEN <<Call("get_all_subnets", <<>>, 0)>> ELSE <<>>)
    \o (IF p.group \/ p.group_id
        THEN <<Call("get_all_security_groups", <<>>, 0)>> ELSE <<>>)

\* the checks made while the request is built
BuildRequestUnchecked(p) == [msg |-> Ok, lookups |-> <<>>]

BuildRequest(p) ==
    IF p.instance_profile_name /\ ~p.boto.profile_name
    THEN [msg |-> "instance_profile_name parameter requires Boto version 2.5.0 or higher",
          lookups |-> <<>>]
    ELSE IF p.assign_public_ip /\ ~p.boto.associate_public_ip_address
    THEN [msg |-> "assign_public_ip parameter requires Boto version 2.13.0 or higher.",
          lookups |-> <<>>]
    ELSE IF p.assign_public_ip /\ ~p.vpc_subnet_id
    THEN [msg |-> "assign_public_ip only available with vpc_subnet_id", lookups |-> <<>>]
    ELSE BlockDevices(p.volumes)

\* the instances that carry the client token, running or not
TokenFilterAnyState == [NoFilter EXCEPT !.token = "tok"]

\* the running instances that carry the client token
TokenFilter == [NoFilter EXCEPT !.state = "running", !.token = "tok"]

\* count_remaining == 0: nothing is launched
SatisfiedBelow(count_remaining) == count_remaining < 0

\* count_remaining <= 0: nothing is launched
SatisfiedAtMost(count_remaining) == count_remaining <= 0

Satisfied(count_remaining) == count_remaining = 0

\* the number of instances create_instances is asked for
Requested == IF ci.override_count # 0 THEN ci.override_count ELSE params.count

\* params as create_instances has filled it when the request is submitted
RequestParams(p) ==
    [submitted |-> TRUE,
     tenancy |-> ~p.spot_price,
     network_interfaces |->
         IF p.assign_public_ip /\ p.vpc_subnet_id
         THEN (IF p.private_ip THEN "private_ip_address" ELSE "public") ELSE None,
     private_ip_address |->
         ~p.spot_price /\ ~(p.assign_public_ip /\ p.private_ip) /\ p.private_ip,
     client_token |-> IF p.spot_price THEN None ELSE p.id]

\* a spot request must not name a private address
SpotPrivateIpUnchecked(p) == FALSE

SpotPrivateIp(p) == p.private_ip

\* the checks of the spot branch, made before the request is submitted
SpotRefusal(p) ==
    IF SpotPrivateIp(p)
    THEN "private_ip only available with on-demand (non-spot) instances"
    ELSE IF p.placement_group /\ ~p.boto.spot_placement_group
    THEN "placement_group parameter requires Boto version 2.3.0 or higher."
    ELSE Ok

\* the calls of the spot branch: request_spot_instances is not reached when a
\* check has refused the parameters
SpotCallsSubmitFirst(looked, n, refused) ==
    Append(looked, Call("request_spot_instances", <<>>, n))

SpotCalls(looked, n, refused) ==
    IF refused THEN looked
    ELSE Append(looked, Call("request_spot_instances", <<>>, n))

\* a spot request the provider has not assigned an instance to
OpenRequest == [instance_id |-> <<>>]

\* the spot branch: the private_ip check, request_spot_instances and, without
\* wait, the code after it, which reads instids
SpotSubmit(c, looked, n) ==
    IF SpotRefusal(params) # Ok
    THEN /\ Fail(SpotRefusal(params))
         /\ calls' = SpotCalls(looked, n, TRUE)
         /\ ci' = [c EXCEPT !.changed = TRUE]
         /\ UNCHANGED <<insts, spots>>
    ELSE /\ calls' = SpotCalls(looked, n, FALSE)
         /\ UNCHANGED insts
         /\ LET sent == [c EXCEPT !.changed = TRUE, !.request = RequestParams(params)]
            IN IF n <= 0
               THEN /\ Fail("Instance creation failed")
                    /\ ci' = sent
                    /\ UNCHANGED spots
               ELSE /\ spots' = spots \o [j \in 1..n |-> OpenRequest]
                    /\ IF params.wait
                       THEN /\ ci' = [sent EXCEPT
                                        !.spot_res = [j \in 1..n |-> Len(spots) + j],
                                        !.spot_deadline = now + params.spot_wait_timeout]
                            /\ pc' = "spot_wait"
                            /\ UNCHANGED out
                       ELSE /\ ci' = [sent EXCEPT
                                        !.spot_res = [j \in 1..n |-> Len(spots) + j]]
                            /\ Fail("NameError: name 'instids' is not defined")

\* ec2.run_instances(min_count = max_count = n, client_token = id): the new
\* fleet and the reservation returned, or an error.  A token used before
\* returns the reservation it created (if the request is the same).
RunInstances(world, id, n) ==
    LET tokened == SelectSeq([k \in 1..Len(world) |-> k], LAMBDA k : world[k].token)
    IN IF id # None /\ tokened # <<>>
       THEN [error |-> n # Len(tokened), world |-> world,
             instances |-> [j \in 1..Len(tokened) |->
                              [id |-> InstanceId(tokened[j]),
                               state |-> world[tokened[j]].state]]]
       ELSE IF n <= 0 \/ Len(world) + n > MaxInst
       THEN [error |-> TRUE, world |-> world, instances |-> <<>>]
       ELSE [error |-> FALSE,
             world |-> world \o [j \in 1..n |->
                                   NewInstance(id # None, NextReservation(world))],
             instances |-> [j \in 1..n |->
                              [id |-> InstanceId(Len(world) + j), state |-> "pending"]]]

\* inst.update(): the instance as the provider has it now
Update(world, snap) == [snap EXCEPT !.state = world[IndexOf(snap.id)].state]

\* the return of create_instances, to main or to enforce_count
CreateReturn(c, world) ==
    LET array == [j \in 1..Len(c.running_instances) |->
                     Update(world, c.running_instances[j])]
        done == [c EXCEPT !.instance_dict_array = array,
                          !.created_instance_ids = Ids(c.running_instances)]
    IN /\ ci' = done
       /\ IF params.mode = "exact"
          THEN pc' = "enforce_created" /\ UNCHANGED out
          ELSE /\ pc' = "done"
               /\ out' = Result(done.changed, done.created_instance_ids,
                                done.instance_dict_array, <<>>)

\* from the parameter checks to the run_instances call
CreateSubmit ==
    /\ pc = "create"
    /\ UNCHANGED <<ss, ft>>
    /\ UNCHANGED <<now, runs, params, ec, ti, prev>>
    /\ LET count == IF ci.override_count # 0 THEN ci.override_count ELSE params.count
           entry == Len(calls)
       IN IF GroupConflict(params)
          THEN /\ Fail("Use only one type of parameter (group_name) or (group_id)")
               /\ calls' = calls
               /\ ci' = [ci EXCEPT !.entry = entry]
               /\ UNCHANGED <<insts, spots>>
          ELSE LET running == IF params.id # None
                              THEN Concat(GetAllInstances(<<>>, TokenFilter)) ELSE <<>>
                   looked == calls \o Lookups(params)
                             \o (IF params.id # None
                                 THEN <<Call("get_all_instances", <<>>, 0)>> ELSE <<>>)
                   count_remaining == count - Len(running)
                   c == [ci EXCEPT !.entry = entry, !.running_instances = running,
                                   !.count_remaining = count_remaining]
                   request == BuildRequest(params)
                   run == RunInstances(insts, params.id, count_remaining)
               IN IF Satisfied(count_remaining)
                  THEN /\ calls' = looked
                       /\ CreateReturn([c EXCEPT !.changed = FALSE], insts)
                       /\ UNCHANGED <<insts, spots>>
                  ELSE IF request.msg # Ok
                  THEN /\ Fail(request.msg)
                       /\ calls' = looked \o request.lookups
                       /\ ci' = [c EXCEPT !.changed = TRUE]
                       /\ UNCHANGED <<insts, spots>>
                  ELSE IF params.spot_price
                  THEN SpotSubmit(c, looked \o request.lookups, count_remaining)
                  ELSE /\ calls' = looked \o request.lookups
                                   \o <<Call("run_instances", <<>>, count_remaining)>>
                       /\ UNCHANGED spots
                       /\ IF run.error
                          THEN /\ Fail("Instance creation failed")
                               /\ ci' = [c EXCEPT !.changed = TRUE,
                                                  !.request = RequestParams(params)]
                               /\ UNCHANGED insts
                          ELSE /\ insts' = run.world
                               /\ ci' = [c EXCEPT !.changed = TRUE,
                                                  !.request = RequestParams(params),
                                                  !.res = run.instances,
                                                  !.instids = Ids(run.instances)]
                               /\ pc' = "create_exists"
                               /\ UNCHANGED out

\* an instance just launched may not be visible to reads yet: the read fails
\* with InvalidInstanceID.NotFound
NotFound(ids) == \E k \in 1..Len(insts) :
                    InstanceId(k) \in Range(ids) /\ insts[k].state = "pending"

\* what is checked for terminated instances, were it the running instances
\* found with the token
TerminatedAmongRunning(res) ==
    Ids(SelectSeq(ci.running_instances, LAMBDA x : x.state = "terminated"))

\* terminated_instances: the identifiers of the instances run_instances
\* returned in state terminated
TerminatedInstances(res) == Ids(SelectSeq(res, LAMBDA x : x.state = "terminated"))

\* the loop that reads the new instances until they are found, and the check
\* for instances that came back terminated; the loop has no sleep and no
\* deadline, and checks counts its passes modulo 2
CreateExists ==
    /\ pc = "create_exists"
    /\ UNCHANGED <<ss, spots, ft>>
    /\ UNCHANGED <<insts, now, runs, params, ec, ti, prev>>
    /\ calls' = Log(Call("get_all_instances", ci.instids, 0))
    /\ \/ /\ NotFound(ci.instids)
          /\ ci' = [ci EXCEPT !.checks = (@ + 1) % 2]
          /\ UNCHANGED <<pc, out>>
       \/ IF TerminatedInstances(ci.res) # <<>>
          THEN /\ pc' = "failed"
               /\ out' = [Failure("Instances were created previously but have since been terminated")
                            EXCEPT !.named = TerminatedInstances(ci.res)]
               /\ ci' = [ci EXCEPT !.checks = 0]
          ELSE /\ ci' = [ci EXCEPT !.checks = 0, !.num_running = 0,
                                   !.deadline = now + params.wait_timeout]
               /\ pc' = "create_wait"
               /\ UNCHANGED out

RunningOrPending(snaps) == SelectSeq(snaps, LAMBDA x : x.state \in {"running", "pending"})

Running(snaps) == SelectSeq(snaps, LAMBDA x : x.state = "running")

\* one pass of the loop that waits for the instances to run
CreateWait ==
    /\ pc = "create_wait"
    /\ UNCHANGED <<ss, spots, ft>>
    /\ UNCHANGED <<insts, runs, params, ec, ti, out, prev>>
    /\ IF ci.deadline > now /\ ci.num_running < Len(ci.instids)
       THEN /\ calls' = Log(Call("get_all_instances", ci.instids, 0))
            /\ \/ /\ NotFound(ci.instids) /\ ~ci.polled
                  /\ now' = now + RetrySleep
                  /\ UNCHANGED <<pc, ci>>
               \/ LET res_list == GetAllInstances(ci.instids, NoFilter)
                      num_running == Len(Running(Concat(res_list)))
                  IN /\ ci' = [ci EXCEPT !.res_list = res_list, !.polled = TRUE,
                                         !.num_running = num_running]
                     /\ IF params.wait /\ num_running < Len(ci.instids)
                        THEN now' = now + PollSleep /\ pc' = pc
                        ELSE now' = now /\ pc' = "create_check"
       ELSE /\ pc' = "create_check"
            /\ UNCHANGED <<now, calls, ci>>

\* inst.modify_attribute for the instances of res, the reservation the loop
\* over res_list ended on: sourceDestCheck is switched off and
\* disableApiTermination on when the parameters say so
Enforce(world, res, p) ==
    [k \in 1..Len(world) |->
        IF InstanceId(k) \in Range(res)
        THEN [world[k] EXCEPT
                !.sourceDestCheck = @ /\ p.source_dest_check,
                !.disableApiTermination = @ \/ p.termination_protection]
        ELSE world[k]]

EnforceCalls(res, p) ==
    (IF ~p.source_dest_check
     THEN [j \in 1..Len(res) |-> Call("modify_attribute", <<res[j]>>, 0)] ELSE <<>>)
    \o (IF p.termination_protection
        THEN [j \in 1..Len(res) |-> Call("modify_attribute", <<res[j]>>, 1)] ELSE <<>>)

\* a tagging error without instance_tags
TagOutcomesAny(p) == BOOLEAN

\* ec2.create_tags either tags the instances or raises EC2ResponseError
TagOutcomes(p) == IF p.instance_tags # None THEN BOOLEAN ELSE {TRUE}

\* the timeout check, the attributes, the tagging and the return
CreateFinish ==
    /\ pc = "create_check"
    /\ UNCHANGED <<ss, spots, ft>>
    /\ UNCHANGED <<now, runs, params, ec, ti, prev>>
    /\ IF params.wait /\ ci.deadline <= now
       THEN /\ Fail("wait for instances running timeout")
            /\ UNCHANGED <<insts, calls, ci>>
       ELSE IF ~ci.polled
       THEN /\ Fail("NameError: name 'res_list' is not defined")
            /\ UNCHANGED <<insts, calls, ci>>
       ELSE \E tagged \in TagOutcomes(params) :
            LET res == Ids(Last(ci.res_list))
                enforced == Enforce(insts, res, params)
                world == IF params.instance_tags # None /\ tagged
                         THEN CreateTags(enforced, ci.instids, params.instance_tags)
                         ELSE enforced
            IN /\ insts' = world
               /\ calls' = calls \o EnforceCalls(res, params)
                           \o (IF params.instance_tags # None
                               THEN <<Call("create_tags", ci.instids, 0)>>
                               ELSE <<>>)
               /\ IF tagged
                  THEN CreateReturn([ci EXCEPT !.running_instances =
                                       ci.running_instances \o Concat(ci.res_list)], world)
                  ELSE /\ Fail("Instance tagging failed")
                       /\ UNCHANGED ci

(***************************************************************************)
(* create_instances: spot requests                                         *)
(***************************************************************************)
\* the requests of res that the provider has assigned an instance to
Assigned(res) == SelectSeq(res, LAMBDA r : spots[r].instance_id # <<>>)

\* one pass of the loop that waits for the spot requests to be assigned
SpotWait ==
    /\ pc = "spot_wait"
    /\ UNCHANGED <<insts, runs, params, ec, ti, out, prev, ss, spots, ft>>
    /\ IF ci.spot_deadline > now
       THEN /\ calls' = Log(Call("get_all_spot_instance_requests", <<>>, 0))
            /\ ci' = [ci EXCEPT !.spot_req_inst_ids = Assigned(ci.spot_res)]
            /\ IF Len(Assigned(ci.spot_res)) < Requested
               THEN now' = now + PollSleep /\ pc' = pc
               ELSE now' = now /\ pc' = "spot_check"
       ELSE /\ pc' = "spot_check"
            /\ UNCHANGED <<now, calls, ci>>

\* the spot timeout check; instids becomes the assigned instances
SpotCheck ==
    /\ pc = "spot_check"
    /\ UNCHANGED <<insts, now, runs, params, calls, ec, ti, prev, ss, spots, ft>>
    /\ IF ci.spot_deadline <= now
       THEN /\ Fail("wait for spot requests timeout")
            /\ UNCHANGED ci
       ELSE /\ ci' = [ci EXCEPT
                        !.instids = [j \in 1..Len(ci.spot_req_inst_ids) |->
                                        spots[ci.spot_req_inst_ids[j]].instance_id],
                        !.num_running = 0,
                        !.deadline = now + params.wait_timeout]
            /\ pc' = "create_wait"
            /\ UNCHANGED out

\* the provider assigns a new instance to an open spot request
SpotProgress ==
    /\ pc \notin {"done", "failed"}
    /\ Len(insts) < MaxInst
    /\ \E r \in 1..Len(spots) :
          /\ spots[r].instance_id = <<>>
          /\ spots' = [spots EXCEPT ![r].instance_id = InstanceId(Len(insts) + 1)]
    /\ insts' = Append(insts, NewInstance(FALSE, NextReservation(insts)))
    /\ UNCHANGED <<now, runs, pc, params, calls, ec, ci, ti, out, prev, ss, ft>>

Next ==
    \/ Invoke
    \/ Reinvoke
    \/ Main
    \/ Terminate
    \/ TerminateWait
    \/ TerminateCheck
    \/ EnforceCount
    \/ EnforceRemoved
    \/ EnforceCreated
    \/ CreateSubmit
    \/ CreateExists
    \/ CreateWait
    \/ CreateFinish
    \/ Progress

Spec == Init /\ [][Next]_vars

\* the module runs to its end: the wait loop and the code after it are taken
FairSpec == Spec /\ WF_vars(CreateWait) /\ WF_vars(CreateFinish)


\* a step of the module, as opposed to a step of the provider
ModuleStep ==
    \/ Main
    \/ Terminate
    \/ TerminateWait
    \/ TerminateCheck
    \/ EnforceCount
    \/ EnforceRemoved
    \/ EnforceCreated
    \/ CreateSubmit
    \/ CreateExists
    \/ CreateWait
    \/ CreateFinish

\* the module keeps running; nothing is assumed of the provider.  One
\* instance at the start is enough for every loop of the module to be entered.
LiveInit == Init /\ Len(insts) <= 1

LiveSpec == LiveInit /\ [][Next]_vars /\ WF_vars(ModuleStep)

(***************************************************************************)
(* The module run once with a spot price.                                  *)
(***************************************************************************)
SpotInvoke == runs = 0 /\ \E p \in SpotParams : Start(p)

SpotNext ==
    \/ SpotInvoke
    \/ Main
    \/ CreateSubmit
    \/ SpotWait
    \/ SpotCheck
    \/ CreateWait
    \/ CreateFinish
    \/ Progress
    \/ SpotProgress

\* the fleets that matter to a spot request: running instances, with or
\* without the client token
SpotInit ==
    /\ insts \in {w \in Fleets : /\ OneTokenReservation(w)
                                 /\ \A k \in 1..Len(w) :
                                       w[k].state = "running" /\ ~w[k].tag}
    /\ Idle
    /\ spots = <<>>
    /\ ft = NoFt

SpotSpec == SpotInit /\ [][SpotNext]_vars

(***************************************************************************)
(* The module run once with state running or stopped.                      *)
(***************************************************************************)
\* the instances start and stop are tried on, each with and without the tag
\* and the source/destination check
StartStopKinds ==
    { [state |-> st, tag |-> tg, sourceDestCheck |-> sdc] :
        st \in {"running", "stopped"}, tg \in BOOLEAN, sdc \in BOOLEAN }
    \cup { [state |-> "terminated", tag |-> TRUE, sourceDestCheck |-> TRUE] }

StartStopFleets ==
    UNION { { [k \in 1..n |-> [state |-> f[k].state, tag |-> f[k].tag,
                               token |-> FALSE, resv |-> k,
                               sourceDestCheck |-> f[k].sourceDestCheck,
                               disableApiTermination |-> FALSE]] :
                f \in [1..n -> StartStopKinds] } : n \in 0..MaxPre }

\* instance_ids is a list of existing instances, or is not given
StartStopParams ==
    { [Defaults EXCEPT !.mode = m, !.instance_ids = ids[1], !.ids_is_list = ids[2],
                       !.instance_tags = it, !.source_dest_check = sdc,
                       !.termination_protection = ~sdc,
                       !.wait = w[1], !.wait_timeout = w[2]] :
        m \in {"running", "stopped"},
        ids \in {<<l, TRUE>> : l \in SubSeqs([k \in 1..Len(insts) |-> InstanceId(k)])}
                \cup {<<<<>>, FALSE>>},
        it \in {None, "a"}, sdc \in BOOLEAN, w \in Waits }

StartStopInit ==
    /\ insts \in StartStopFleets
    /\ Idle
    /\ spots = <<>>
    /\ ft = NoFt

StartStopInvoke == runs = 0 /\ \E p \in StartStopParams : Start(p)

StartStopNext ==
    \/ StartStopInvoke
    \/ Reinvoke
    \/ Main
    \/ StartStop
    \/ StartStopWait
    \/ StartStopCheck
    \/ Progress

StartStopSpec == StartStopInit /\ [][StartStopNext]_vars

(***************************************************************************)
(* The module run once with wait, under a clock that also advances between *)
(* the last test of a wait loop and the timeout check that follows it.     *)
(***************************************************************************)
\* the deadline of the wait whose timeout check is next
Deadline ==
    IF pc = "create_check" THEN ci.deadline
    ELSE IF pc = "spot_check" THEN ci.spot_deadline
    ELSE IF pc = "startstop_check" THEN ss.deadline
    ELSE ti.deadline

\* time.time() read by the timeout check is later than the one the loop read
Tick ==
    /\ pc \in {"create_check", "spot_check", "startstop_check", "terminate_check"}
    /\ now <= Deadline
    /\ now' = now + 1
    /\ UNCHANGED <<insts, runs, pc, params, calls, ec, ci, ti, out, prev, ss, spots, ft>>

WaitParams ==
    { p \in AbsentParams \cup CreateParams \cup SpotParams \cup StartStopParams :
        /\ p.wait /\ DefaultRequest(p) /\ ~p.private_ip
        /\ p.instance_tags = None /\ p.source_dest_check /\ p.id = None }

\* running instances, without tag or client token
ClockInit ==
    /\ insts \in {w \in Fleets : \A k \in 1..Len(w) :
                     w[k].state = "running" /\ ~w[k].tag /\ ~w[k].token}
    /\ Idle
    /\ spots = <<>>
    /\ ft = NoFt

WaitInvoke == runs = 0 /\ \E p \in WaitParams : Start(p)

ClockNext ==
    \/ WaitInvoke
    \/ Main
    \/ Terminate
    \/ TerminateWait
    \/ TerminateCheck
    \/ CreateSubmit
    \/ CreateExists
    \/ CreateWait
    \/ CreateFinish
    \/ SpotWait
    \/ SpotCheck
    \/ StartStop
    \/ StartStopWait
    \/ StartStopCheck
    \/ Progress
    \/ SpotProgress
    \/ Tick

ClockSpec == ClockInit /\ [][ClockNext]_vars

(***************************************************************************)
(* create_instances run once without wait, on-demand and spot, over the    *)
(* parameters and the boto capabilities its checks look at.                *)
(***************************************************************************)
Capabilities ==
    [profile_name : BOOLEAN, associate_public_ip_address : BOOLEAN,
     spot_placement_group : BOOLEAN]

CheckedParams ==
    { p \in { [Defaults EXCEPT !.spot_price = spot, !.private_ip = ip, !.id = id,
                               !.group = r.group, !.group_id = r.group_id,
                               !.vpc_subnet_id = r.vpc_subnet_id,
                               !.assign_public_ip = r.assign_public_ip,
                               !.volumes = r.volumes,
                               !.instance_profile_name = opt[1],
                               !.placement_group = opt[2], !.boto = b] :
                spot \in BOOLEAN, ip \in BOOLEAN, id \in {None, "tok"},
                r \in Requests, opt \in BOOLEAN \X BOOLEAN, b \in Capabilities } :
        p.volumes = <<>> \/ (p.boto = AllSupported /\ ~p.private_ip) }

CheckedInvoke == runs = 0 /\ \E p \in CheckedParams : Start(p)

CheckedNext ==
    \/ CheckedInvoke
    \/ Main
    \/ CreateSubmit
    \/ CreateExists
    \/ CreateWait
    \/ CreateFinish
    \/ Progress

CheckedSpec == ClockInit /\ [][CheckedNext]_vars

(***************************************************************************)
(* The module run once with state absent, running or stopped on a batch of *)
(* instances of which some refuse the call: terminate is refused by an     *)
(* instance with disableApiTermination, start and stop by a terminated one.*)
(***************************************************************************)
MaxBatch == 3

BatchFleets ==
    UNION { { [k \in 1..n |-> [state |-> f[k][1], tag |-> FALSE, token |-> FALSE,
                               resv |-> k, sourceDestCheck |-> TRUE,
                               disableApiTermination |-> f[k][2]]] :
                f \in [1..n -> {"running", "stopped", "terminated"} \X BOOLEAN] } :
            n \in 0..MaxBatch }

BatchParams ==
    { [Defaults EXCEPT !.mode = m, !.instance_ids = ids] :
        m \in {"absent", "running", "stopped"},
        ids \in SubSeqs([k \in 1..Len(insts) |-> InstanceId(k)]) }

BatchInit ==
    /\ insts \in BatchFleets
    /\ Idle
    /\ spots = <<>>
    /\ ft = NoFt

BatchInvoke == runs = 0 /\ \E p \in BatchParams : Start(p)

BatchNext ==
    \/ BatchInvoke
    \/ Main
    \/ Terminate
    \/ StartStop

BatchSpec == BatchInit /\ [][BatchNext]_vars

(***************************************************************************)
(* create_instances run once with a token that may have been used before:  *)
(* the instances of the earlier call share a reservation and are running,  *)
(* stopped or terminated by now.                                           *)
(***************************************************************************)
ReplayFleets ==
    UNION { { [k \in 1..n |-> [state |-> f[k][1], tag |-> FALSE, token |-> f[k][2],
                               resv |-> IF f[k][2] THEN 1 ELSE 2,
                               sourceDestCheck |-> TRUE,
                               disableApiTermination |-> FALSE]] :
                f \in [1..n -> {"running", "stopped", "terminated"} \X BOOLEAN] } :
            n \in 0..MaxPre }

ReplayParams ==
    { [Defaults EXCEPT !.id = id, !.count = c, !.wait = w[1], !.wait_timeout = w[2],
                       !.instance_tags = t, !.source_dest_check = ~attr,
                       !.termination_protection = attr] :
        id \in {None, "tok"}, c \in 1..MaxCount, w \in Waits, t \in {None, "a"},
        attr \in BOOLEAN }

ReplayInit ==
    /\ insts \in ReplayFleets
    /\ Idle
    /\ spots = <<>>
    /\ ft = NoFt

ReplayInvoke == runs = 0 /\ \E p \in ReplayParams : Start(p)

ReplayNext ==
    \/ ReplayInvoke
    \/ Main
    \/ CreateSubmit
    \/ CreateExists
    \/ CreateWait
    \/ CreateFinish
    \/ Progress

ReplaySpec == ReplayInit /\ [][ReplayNext]_vars

(***************************************************************************)
(* get_reservations taken alone, on two tag specifications and an instance *)
(***************************************************************************)
FilterInit ==
    /\ insts = <<>>
    /\ Idle
    /\ spots = <<>>
    /\ ft \in { [tags |-> a, other |-> b, filters |-> EmptyDict,
                 other_filters |-> EmptyDict, done |-> FALSE,
                 instance |-> [state |-> st, tags |-> it]] :
                  a \in TagSpecs, b \in TagSpecs,
                  st \in {"running", "stopped"}, it \in InstanceTags }

\* find_running_instances_by_count_tag calls get_reservations on each
Translate ==
    /\ ~ft.done
    /\ ft' = [ft EXCEPT !.filters = GetFilters(ft.tags, "running"),
                        !.other_filters = GetFilters(ft.other, "running"),
                        !.done = TRUE]
    /\ UNCHANGED <<insts, now, runs, pc, params, calls, ec, ci, ti, out, prev,
                   ss, spots>>

FilterNext == Translate

FilterSpec == FilterInit /\ [][FilterNext]_vars

(***************************************************************************)
(* Properties.                                                             *)
(***************************************************************************)
Ended == pc \in {"done", "failed"}

Issued(op) == SelectSeq(calls, LAMBDA c : c.op = op)

\* the running instances count_tag matches, at the provider
MatchedRunning == Len(FindRunning(params.count_tag))

ExactDone == pc = "done" /\ params.mode = "exact"

\* C1 (as claimed): whenever enforce_count returns, the number of running
\* instances that match count_tag equals the target exact_count.
C1_MatchedEqualsTarget == ExactDone => MatchedRunning = params.exact_count

\* the matching instances that were not running when enforce_count read the
\* fleet, were not launched by it, and run now
LateStarters ==
    {k \in 1..Len(insts) :
        /\ insts[k].state = "running"
        /\ params.count_tag = None \/ insts[k].tag
        /\ InstanceId(k) \notin Range(Ids(ec.matched)) \cup Range(ci.instids)}

\* C1 (amended): when enforce_count returns after finding C matched running
\* instances for target T, and no matching instance that was pending at the
\* read has started since, the matched running count is T if C >= T; if C < T
\* it lies between C and T, and it is T with wait, instance_tags that satisfy
\* count_tag, and no id.  Each late starter adds one.
C1_MatchedAfterReconcile ==
    ExactDone =>
        LET C == Len(ec.matched)
            T == params.exact_count
            found == MatchedRunning - Cardinality(LateStarters)
        IN IF C >= T THEN found = T
           ELSE /\ C <= found /\ found <= T
                /\ (params.wait /\ params.instance_tags = "a" /\ params.id = None)
                      => found = T

C1_Witness ==
    /\ ExactDone /\ params.wait /\ params.instance_tags = "a" /\ params.id = None
    /\ Len(ec.matched) = 0 /\ params.exact_count = 2 /\ MatchedRunning = 2
    /\ LateStarters = {} /\ Len(ci.instids) = 2

C1_WitnessRemoved ==
    ExactDone /\ Len(ec.matched) = 2 /\ params.exact_count = 1 /\ MatchedRunning = 1

\* the n smallest identifiers of a list, in string order
Smallest(ids, n) ==
    {x \in Range(ids) : Cardinality({y \in Range(ids) : StrLess(y, x)}) < n}

\* C2: when more instances match than the target, the identifiers handed to
\* terminate_instances are exactly the (C - T) smallest identifiers, in string
\* order, of the matched running instances, and every terminate call names a
\* matched instance; of i-5, i-1, i-4, i-2, i-3 with target 3, i-1 and i-2 go.
C2_LowestSortedRemoved ==
    /\ Range(RemoveIds(<< <<5>>, <<1>>, <<4>>, <<2>>, <<3>> >>, 5 - 3)) = {<<1>>, <<2>>}
    /\ (params.mode = "exact" /\ Len(ec.matched) > params.exact_count) =>
          /\ Range(ec.remove_ids) =
                Smallest(Ids(ec.matched), Len(ec.matched) - params.exact_count)
          /\ Len(ec.remove_ids) = Len(ec.matched) - params.exact_count
          /\ pc # "enforce" => ti.instance_ids = ec.remove_ids
    /\ params.mode = "exact" =>
          \A j \in 1..Len(calls) :
              calls[j].op = "terminate_instances"
                 => Range(calls[j].ids) \subseteq Range(Ids(ec.matched))

C2_Witness ==
    /\ params.mode = "exact" /\ Len(ec.matched) = 2 /\ params.exact_count = 1
    /\ ec.remove_ids = <<ec.matched[2].id>>
    /\ Issued("terminate_instances") = <<Call("terminate_instances", ec.remove_ids, 0)>>

\* C3: an exact_count invocation without count_tag fails before any instance
\* is read, created or terminated, whatever the target (0 included).
C3_UnfilteredRejected ==
    (params.mode = "exact" /\ params.count_tag = None /\ pc \notin {"main", "enforce"})
        => pc = "failed" /\ calls = <<>>

\* the second of two runs of the same create task with a client token, the
\* first of which returned a result
SecondCreate ==
    /\ runs = 2 /\ params.mode = "create" /\ params.id # None
    /\ prev.kind = "result"

SameAsFirst ==
    /\ pc = "done"
    /\ ~out.changed
    /\ Range(out.instance_ids) = Range(prev.instance_ids)
    /\ Issued("run_instances") = <<>>

\* C4 (as claimed): a second create_instances with the same id and count,
\* after a first that succeeded, returns changed=false and the same
\* identifiers and issues no run_instances.
C4_SecondRunUnchanged ==
    /\ SecondCreate => Issued("run_instances") = <<>>
    /\ (SecondCreate /\ Ended) => SameAsFirst

\* the identifiers the first run returned are count distinct instances, all
\* of them running
FirstAllRunning ==
    /\ Cardinality(Range(prev.instance_ids)) = params.count
    /\ \A id \in Range(prev.instance_ids) : insts[IndexOf(id)].state = "running"

\* C4 (amended): if the first run returned count distinct instances and all of
\* them are running when the second run looks them up, the second run returns
\* changed=false and the same identifiers and issues no run_instances.
C4_SecondRunUnchangedWhenRunning ==
    [][(SecondCreate /\ pc = "create" /\ FirstAllRunning) => SameAsFirst']_vars

C4_Witness ==
    /\ SecondCreate /\ params.count = 2 /\ FirstAllRunning /\ SameAsFirst
    /\ Len(out.instance_ids) = 2

\* C5: whenever at least as many running instances carry the client token as
\* are requested (the parameters passing validation), create_instances issues
\* no run_instances and returns changed=false.
C5_NoLaunchWhenSatisfied ==
    [][(/\ pc = "create" /\ pc' # "create"
        /\ params.id # None /\ ~GroupConflict(params)
        /\ BuildRequest(params).msg = Ok
        /\ Len(Concat(GetAllInstances(<<>>, TokenFilter))) >= Requested)
          => /\ pc' \in {"done", "enforce_created"}
             /\ ~ci'.changed
             /\ Issued("run_instances")' = <<>>]_vars

\* C6: terminate_instances on identifiers that are all terminated already
\* issues no terminate call, does not fail, reports changed=false and returns
\* no instance record and no identifier, with and without wait.
C6_TerminateTerminated ==
    (params.mode = "absent" /\ Ended /\ params.instance_ids # <<>>
     /\ \A id \in Range(params.instance_ids) : insts[IndexOf(id)].state = "terminated")
        => /\ pc = "done"
           /\ Issued("terminate_instances") = <<>>
           /\ ~out.changed
           /\ out.instances = <<>>
           /\ out.instance_ids = <<>>

\* C7: when fewer instances match than the target, create_instances is asked
\* for exactly T - C instances and launches them, the full set returned holds
\* T distinct instances and changed=true, with or without id.
C7_DeficitCreated ==
    (ExactDone /\ Len(ec.matched) < params.exact_count) =>
        LET deficit == params.exact_count - Len(ec.matched)
        IN /\ ci.override_count = deficit
           /\ Issued("run_instances") = <<Call("run_instances", <<>>, deficit)>>
           /\ Len(out.instances) = deficit
           /\ Cardinality(Range(Ids(out.tagged_instances))) = params.exact_count
           /\ out.changed

\* create_instances has returned after submitting a request
CreatedAndReturned ==
    /\ params.mode # "absent" /\ ci.changed
    /\ pc \in {"done", "enforce_created"}

\* what holds of the wait loop in every state
WaitSafety ==
    /\ (CreatedAndReturned /\ params.wait) =>
          /\ ci.instids # <<>>
          /\ Range(Ids(Concat(ci.res_list))) = Range(ci.instids)
          /\ \A j \in 1..Len(ci.res_list) : \A i \in 1..Len(ci.res_list[j]) :
                 ci.res_list[j][i].state = "running"
          /\ \A id \in Range(ci.instids) : insts[IndexOf(id)].state = "running"
          /\ now < ci.deadline
    /\ out.msg = "wait for instances running timeout" =>
          /\ params.wait /\ pc = "failed" /\ now >= ci.deadline
    /\ (pc = "create_check" /\ params.wait) =>
          now >= ci.deadline \/ ci.num_running >= Len(ci.instids)
    /\ pc \in {"create_wait", "create_check"} => now < ci.deadline + PollSleep

\* C8: with wait, create_instances returns only if every instance of the
\* request was seen running in the last poll; the 'wait for instances running
\* timeout' failure is raised only with wait and once the deadline has passed;
\* the wait loop is left only when all instances run or the deadline has
\* passed, and it never runs a full sleep beyond the deadline; and an
\* invocation in the wait loop ends in that failure unless every instance was
\* seen running, and then it returns or the tagging that follows fails.
C8_WaitForRunning ==
    /\ []WaitSafety
    /\ (pc = "create_wait" /\ params.wait)
          ~> \/ out.msg = "wait for instances running timeout"
             \/ CreatedAndReturned
             \/ /\ out.msg = "Instance tagging failed"
                /\ ci.num_running >= Len(ci.instids) /\ now < ci.deadline

C8_Witness ==
    /\ out.msg = "wait for instances running timeout"
    /\ params.wait_timeout = 1 /\ now >= 1
    /\ \E id \in Range(ci.instids) : insts[IndexOf(id)].state = "pending"

C8_WitnessReturned ==
    CreatedAndReturned /\ params.wait /\ Len(ci.instids) = 2 /\ now = PollSleep

\* C9: with group and group_id both set create_instances fails with the
\* validation failure and has issued no provider operation, read or write.
C9_GroupConflictRejected ==
    (params.mode = "create" /\ params.group /\ params.group_id
     /\ pc \notin {"main", "create"})
        => /\ pc = "failed"
           /\ out.msg = "Use only one type of parameter (group_name) or (group_id)"
           /\ calls = <<>>
           /\ Len(calls) = ci.entry

C9_Witness ==
    /\ pc = "failed" /\ params.group /\ params.group_id /\ params.vpc_subnet_id
    /\ params.id # None
    /\ out.msg = "Use only one type of parameter (group_name) or (group_id)"

\* the parameter sets C10 is about
IopsOverRatio(v) ==
    /\ v.snapshot /\ v.volume_type = "io1" /\ v.iops # -1
    /\ v.iops > MAX_IOPS_TO_SIZE_RATIO
                  * (IF v.volume_size # -1 THEN v.volume_size ELSE SnapshotSize)

Contradictory(p) ==
    \/ p.assign_public_ip /\ ~p.vpc_subnet_id
    \/ \E j \in 1..Len(p.volumes) :
          \/ p.volumes[j].ephemeral /\ p.volumes[j].snapshot
          \/ IopsOverRatio(p.volumes[j])

\* the same, leaving out the volumes that volume_size 0 marks as not to be
\* created
ContradictoryAndBuilt(p) ==
    \/ p.assign_public_ip /\ ~p.vpc_subnet_id
    \/ \E j \in 1..Len(p.volumes) :
          /\ p.volumes[j].volume_size # 0
          /\ \/ p.volumes[j].ephemeral /\ p.volumes[j].snapshot
             \/ IopsOverRatio(p.volumes[j])

ValidationFailures ==
    {"Use only one type of parameter (group_name) or (group_id)",
     "assign_public_ip only available with vpc_subnet_id",
     "Device name must be set for volume",
     "device_type is a deprecated name for volume_type. Do not use both device_type and volume_type",
     "Size must be specified when creating a new volume or modifying the root volume",
     "io1 volumes must have an iops value set",
     "IOPS must be at most 30 times greater than size",
     "You can not set encyrption when creating a volume from a snapshot",
     "Cannot set both ephemeral and snapshot"}

C10_WitnessPublicIp ==
    /\ pc = "failed" /\ params.group
    /\ out.msg = "assign_public_ip only available with vpc_subnet_id"
    /\ calls # <<>>

\* the filter that asks for a running instance on which key foo exists
FooExists == DictUpdate(TagKey("foo"), [n \in {<<"instance-state-name">>} |-> "running"])

\* C11: tag specifications that ask for the same thing, whatever their shape
\* (scalar, list or mapping), are translated into filters that match the same
\* instances; the mapping {"foo": None} and the list ["foo"] both become a
\* key-existence filter on foo.
C11_ShapesEquivalent ==
    ft.done =>
        /\ Intent(ft.tags) = Intent(ft.other)
              => FilterMatches(ft.instance, ft.filters)
                    = FilterMatches(ft.instance, ft.other_filters)
        /\ ft.tags \in {Dict([k \in {"foo"} |-> None]), List(<<Str("foo")>>)}
              => ft.filters = FooExists

\* a spot request has been submitted by this invocation
SpotSubmitted == Issued("request_spot_instances") # <<>>

\* C12 as stated: a submitted spot request carries neither tenancy nor a
\* private address, and an invocation with private_ip and spot_price that has
\* passed the submit step has failed without submitting a spot request.
C12_SpotPrivateIpFails ==
    /\ SpotSubmitted =>
          /\ ~ci.request.tenancy
          /\ ~ci.request.private_ip_address
          /\ ci.request.network_interfaces # "private_ip_address"
    /\ params.spot_price /\ params.private_ip /\ pc \notin {"idle", "main", "create"}
          => pc = "failed" /\ ~SpotSubmitted

\* C12: a submitted spot request carries neither tenancy nor a private
\* address; an invocation with private_ip and spot_price never submits a spot
\* request, and it ends in a failure unless the running instances that carry
\* the client token already number count, in which case it returns unchanged.
C12_SpotNeverPrivateIp ==
    /\ SpotSubmitted =>
          /\ ~ci.request.tenancy
          /\ ~ci.request.private_ip_address
          /\ ci.request.network_interfaces # "private_ip_address"
    /\ params.spot_price /\ params.private_ip /\ pc \notin {"idle", "main", "create"}
          => /\ ~SpotSubmitted
             /\ \/ pc = "failed"
                \/ pc = "done" /\ ~out.changed /\ ci.count_remaining = 0

\* a spot request was submitted
C12_Witness == SpotSubmitted /\ ci.request.submitted /\ ~params.private_ip

\* private_ip with spot_price was refused at the check of the spot branch
C12_WitnessRefused ==
    /\ params.spot_price /\ params.private_ip /\ params.assign_public_ip
    /\ out.msg = "private_ip only available with on-demand (non-spot) instances"
\* C13: with wait, terminate_instances reports a timeout only if the last
\* read of the wait loop returned fewer terminated instances than were
\* submitted for termination, however the provider groups the instances
\* into reservations.
C13_TimeoutOnlyIfNotTerminated ==
    out.msg = "wait for instance termination timeout"
        => Len(Concat(ti.response)) < Len(ti.terminated_instance_ids)
\* terminate_instances has returned
TerminateReturned == pc \in {"done", "enforce_removed"} /\ ti.instance_ids # <<>>

\* C14 as stated: with and without wait, the records terminate_instances
\* returns are those of exactly the instances it terminated, each in the
\* state read before the terminate call.
C14_RecordsAreSnapshot ==
    TerminateReturned =>
        /\ Ids(ti.instance_dict_array) = ti.terminated_instance_ids
        /\ \A j \in 1..Len(ti.instance_dict_array) :
              Terminable(ti.instance_dict_array[j])

\* C14: without wait the records are those of exactly the instances
\* terminated, each in the state read before the terminate call; with wait,
\* when at least one instance was terminated, the records are read again
\* after the wait: each is one of the terminated instances, in state
\* terminated, none twice, and all of them when the last read of the wait
\* loop returned all of them.
C14_RecordsSnapshotOrReread ==
    TerminateReturned =>
        /\ ~params.wait =>
              /\ Ids(ti.instance_dict_array) = ti.terminated_instance_ids
              /\ \A j \in 1..Len(ti.instance_dict_array) :
                    Terminable(ti.instance_dict_array[j])
        /\ params.wait /\ ti.terminated_instance_ids # <<>> =>
              /\ \A j \in 1..Len(ti.instance_dict_array) :
                    /\ ti.instance_dict_array[j].state = "terminated"
                    /\ ti.instance_dict_array[j].id \in Range(ti.terminated_instance_ids)
              /\ Cardinality(Range(Ids(ti.instance_dict_array)))
                    = Len(ti.instance_dict_array)
              /\ Len(Concat(ti.response)) = Len(ti.terminated_instance_ids)
                    => Range(Ids(ti.instance_dict_array))
                          = Range(ti.terminated_instance_ids)

\* two instances were terminated with wait and both records returned
C14_Witness ==
    /\ TerminateReturned /\ params.wait
    /\ Len(ti.terminated_instance_ids) = 2
    /\ Len(ti.instance_dict_array) = 2

\* two instances were terminated without wait
C14_WitnessNoWait ==
    /\ TerminateReturned /\ ~params.wait
    /\ Len(ti.instance_dict_array) = 2
\* the selected instances that the last read of the wait loop did not find
\* in the target state
NotInTargetState ==
    SelectSeq(Selected(params.instance_ids, params.instance_tags),
              LAMBDA i : i.id \notin Range(Ids(ss.instance_dict_array)))

\* C15: with wait, startstop_instances fails with a timeout only if some
\* instance selected by the identifiers, by the tags, or by both was not in
\* the target state at the last read of the wait loop; an invocation with
\* tags and no identifier list waits in the same way.
C15_WaitForSelected ==
    params.mode \in {"running", "stopped"} =>
        /\ out.msg = "wait for instances running timeout" => NotInTargetState # <<>>
        /\ out.msg # "TypeError: object of type 'NoneType' has no len()"
\* the submitted spot requests that the last read of the spot wait loop found
\* without an instance
Unassigned ==
    SelectSeq(ci.spot_res, LAMBDA r : r \notin Range(ci.spot_req_inst_ids))

\* C16: with wait, the spot wait fails with a timeout only if some spot
\* request submitted by this invocation was still without an instance at the
\* last read of the loop, whatever the count and the number of running
\* instances that already carry the client token.
C16_SpotTimeoutOnlyIfUnassigned ==
    out.msg = "wait for spot requests timeout" => Unassigned # <<>>
\* C17: every invocation ends, with a result or with a failure, whatever the
\* provider answers, as long as the module keeps taking steps.
C17_EveryInvocationEnds == (pc = "main") ~> Ended
Max(a, b) == IF a >= b THEN a ELSE b

\* C19: over the passes that enforce the same exact_count on the same
\* count_tag, the instances that carry the tag and are pending or running
\* never number more than the larger of exact_count and their number before
\* the first pass.
C19_NeverOverProvisioned ==
    params.mode = "exact" /\ params.count_tag # None =>
        Len(PendingOrRunning(insts)) <= Max(params.exact_count, prev.matched)
\* C20: a timeout failure is reported only when the last read of the wait
\* loop did not find the awaited condition: not all instances running, not all
\* spot requests assigned, not all instances terminated, not all selected
\* instances in the target state.
C20_TimeoutOnlyAfterBadPoll ==
    /\ out.msg = "wait for instances running timeout"
          /\ params.mode \notin {"running", "stopped"}
          => ci.num_running < Len(ci.instids)
    /\ out.msg = "wait for spot requests timeout"
          => Len(ci.spot_req_inst_ids) < Len(ci.spot_res)
    /\ out.msg = "wait for instance termination timeout"
          => \E id \in Range(ti.terminated_instance_ids) :
                id \notin Range(Ids(Concat(ti.response)))
    /\ out.msg = "wait for instances running timeout"
          /\ params.mode \in {"running", "stopped"}
          => \E id \in Range(params.instance_ids) :
                id \notin Range(Ids(ss.instance_dict_array))
\* instance k is in the identifier list and carries the tag
InBoth(k) == InstanceId(k) \in Range(params.instance_ids) /\ insts[k].tag

\* C18: when startstop_instances is given identifiers and tags, its first loop
\* issues modify_attribute, start and stop only for instances that are in the
\* identifier list and carry the tag, and leaves every other instance as it
\* was.
C18_OnlyIntersectionTouched ==
    [][(pc = "startstop" /\ params.instance_ids # <<>> /\ params.instance_tags # None)
          => /\ Len(insts') = Len(insts)
             /\ \A k \in 1..Len(insts) : ~InBoth(k) => insts'[k] = insts[k]
             /\ \A j \in 1..Len(calls') :
                   Mutating(calls'[j])
                      => \A id \in Range(calls'[j].ids) : InBoth(IndexOf(id))]_vars

\* identifiers and tags were given, an instance of the list does not carry
\* the tag, and another one was started, stopped or modified
C18_Witness ==
    /\ pc \in {"done", "startstop_wait"}
    /\ params.mode \in {"running", "stopped"}
    /\ params.instance_ids # <<>> /\ params.instance_tags # None
    /\ \E k \in 1..Len(insts) :
          InstanceId(k) \in Range(params.instance_ids) /\ ~insts[k].tag
    /\ \E j \in 1..Len(calls) : Mutating(calls[j])
\* the failures create_instances raises on its parameters or on what boto
\* supports
CheckFailures ==
    ValidationFailures
    \cup {"instance_profile_name parameter requires Boto version 2.5.0 or higher",
          "assign_public_ip parameter requires Boto version 2.13.0 or higher.",
          "private_ip only available with on-demand (non-spot) instances",
          "placement_group parameter requires Boto version 2.3.0 or higher."}

\* C21: when create_instances ends in a validation or capability failure, no
\* run_instances and no request_spot_instances call has been issued.
C21_FailsBeforeSubmission ==
    out.msg \in CheckFailures
        => /\ Issued("run_instances") = <<>>
           /\ Issued("request_spot_instances") = <<>>

\* a spot request with a placement group was refused for want of capability,
\* after the lookups
C21_Witness ==
    /\ out.msg = "placement_group parameter requires Boto version 2.3.0 or higher."
    /\ params.spot_price /\ params.placement_group
    /\ calls # <<>>
\* the identifiers modify_attribute was called on, n = 0 for sourceDestCheck
\* and n = 1 for disableApiTermination
Modified(n) ==
    UNION { Range(calls[j].ids) :
              j \in {i \in 1..Len(calls) :
                       calls[i].op = "modify_attribute" /\ calls[i].n = n} }

\* C22: after create_instances has returned, on-demand or spot, every instance
\* it created has had sourceDestCheck switched off if source_dest_check is
\* false, and disableApiTermination switched on if termination_protection is
\* true, whatever the reservations the instances are in.
C22_AttributesEnforced ==
    (pc = "done" /\ params.mode = "create" /\ ci.instids # <<>>)
        => /\ ~params.source_dest_check => Range(ci.instids) \subseteq Modified(0)
           /\ params.termination_protection => Range(ci.instids) \subseteq Modified(1)
TagCalls == Issued("create_tags")

Submitted == Issued("run_instances") # <<>> \/ Issued("request_spot_instances") # <<>>

\* what holds of tagging whatever the token: one call at most, on instids,
\* after the wait and the attributes, none after a timeout, on success one
TaggingOrder ==
    /\ (pc' # "main" /\ TagCalls' # TagCalls) =>
          /\ pc = "create_check" /\ TagCalls = <<>>
          /\ TagCalls' = <<Call("create_tags", ci.instids, 0)>>
          /\ Last(calls') = Call("create_tags", ci.instids, 0)
          /\ Submitted /\ params.instance_tags # None
          /\ params.wait => (ci.num_running >= Len(ci.instids) /\ now < ci.deadline)
          /\ pc' = "failed" <=> out'.msg = "Instance tagging failed"
          /\ pc' = "failed" => insts' = Enforce(insts, Ids(Last(ci.res_list)), params)
    /\ (out.msg = "wait for instances running timeout")' => (TagCalls = <<>>)'
    /\ (out.msg = "Instance tagging failed")' => (pc = "failed" /\ Len(TagCalls) = 1)'
    /\ (CreatedAndReturned /\ Submitted /\ params.instance_tags # None)' =>
          (Len(TagCalls) = 1)'

\* C23 (as claimed): when instance_tags are given and a creation was
\* submitted, one create_tags call is issued, after the running wait and the
\* attribute calls, and it covers the instances this invocation created and
\* no other; after a timeout of the wait there is no tag call, and a tagging
\* error ends the invocation in failure.
C23_TagsNewInstancesOnce ==
    [][/\ TaggingOrder
       /\ (pc' # "main" /\ TagCalls' # TagCalls) =>
             Range(ci.instids) \cap Range(Ids(ci.running_instances)) = {}]_vars

\* C23 (amended): the one create_tags call covers the identifiers the
\* submission returned (instids), which under a token used before are the
\* instances of the earlier call; order, timeout and error are as claimed.
C23_TagsInstidsOnce == [][TaggingOrder]_vars

C23_Witness ==
    /\ pc = "done" /\ params.mode = "create" /\ params.wait
    /\ params.instance_tags # None
    /\ Len(TagCalls) = 1 /\ Len(ci.instids) = 2
    /\ \A id \in Range(ci.instids) : insts[IndexOf(id)].tag

C23_WitnessTagError ==
    /\ out.msg = "Instance tagging failed" /\ Len(TagCalls) = 1
RunCalls == Issued("run_instances")

\* the running instances that carry the idempotency token, at the provider
TokenRunning ==
    {k \in 1..Len(insts) : params.id # None /\ insts[k].token
                              /\ insts[k].state = "running"}

\* C24: an invocation issues at most one run_instances call, with min_count =
\* max_count = the count asked for less the number of running instances that
\* carry the idempotency token, and with the token as client token.
C24_OneRunInstances ==
    [][(pc' # "main" /\ RunCalls' # RunCalls) =>
          /\ RunCalls = <<>> /\ Len(RunCalls') = 1
          /\ RunCalls'[1].n = Requested - Cardinality(TokenRunning)
          /\ ci'.request.client_token = params.id
          /\ \A k \in Len(insts)+1..Len(insts') : insts'[k].token <=> params.id # None]_vars

C24_Witness ==
    /\ Len(RunCalls) = 1 /\ RunCalls[1].n = 1
    /\ params.id # None /\ Requested = 2
    /\ ci.request.client_token = "tok"
    /\ pc = "done"
CreateSucceeded == pc = "done" /\ params.mode = "create" /\ out.kind = "result"

\* the instances that carried the token and were running before the submission
AlreadyRunning ==
    SubSeq(ci.running_instances, 1,
           Len(ci.running_instances) - Len(Concat(ci.res_list)))

\* C25: when create_instances succeeds, the identifiers it returns are those
\* of the running instances that already carried the token together with
\* those of the instances the submission brought (instids), each identifier
\* once, and the records returned are one per identifier, in the same order.
C25_ResultIsUnion ==
    CreateSucceeded =>
        /\ Range(out.instance_ids) = Range(Ids(AlreadyRunning)) \cup Range(ci.instids)
        /\ Len(out.instance_ids) = Cardinality(Range(out.instance_ids))
        /\ Ids(out.instances) = out.instance_ids
\* create_instances has returned, to main or to enforce_count
CreateReturned == CreateSucceeded \/ pc = "enforce_created"

C26_WitnessChanged ==
    /\ CreateSucceeded /\ out.changed /\ Len(RunCalls) = 1
TerminatedMessage == "Instances were created previously but have since been terminated"

\* C27: if run_instances returns an instance in state terminated,
\* create_instances goes no further than the check and ends in the failure
\* that names the terminated instances, with no modify_attribute and no
\* create_tags call issued.
C27_TerminatedReplayFails ==
    /\ TerminatedInstances(ci.res) # <<>> =>
          /\ pc \in {"create_exists", "failed"}
          /\ Ended => out.msg = TerminatedMessage
    /\ out.msg = TerminatedMessage =>
          /\ out.named = TerminatedInstances(ci.res) /\ out.named # <<>>
          /\ \A j \in 1..Len(out.named) :
                insts[IndexOf(out.named[j])].state = "terminated"
          /\ Issued("modify_attribute") = <<>> /\ TagCalls = <<>>
          /\ Len(RunCalls) = 1

C27_Witness ==
    /\ out.msg = TerminatedMessage /\ Len(out.named) = 1 /\ Len(ci.res) = 2
    /\ params.instance_tags # None /\ params.termination_protection
\* the identifiers given to terminate_instances whose instance is running or
\* stopped at the provider
RunningOrStopped ==
    {InstanceId(k) : k \in {j \in 1..Len(insts) :
                              /\ InstanceId(j) \in Range(ti.instance_ids)
                              /\ insts[j].state \in {"running", "stopped"}}}

TerminateCalls == Issued("terminate_instances")

C28_WitnessUnchanged ==
    /\ pc = "done" /\ params.mode = "absent" /\ ~out.changed
    /\ out.instance_ids = <<>> /\ params.instance_ids # <<>>
\* the running instances count_tag matches, at the provider
TagMatched ==
    {k \in 1..Len(insts) : /\ insts[k].state = "running"
                             /\ (params.count_tag = None \/ insts[k].tag)}

\* C29: when the running instances count_tag matches are as many as
\* exact_count, enforce_count issues nothing but its read, changes no
\* instance, and returns changed = false, no changed instance and the
\* matched instances as the full set.
C29_EqualBranchIsNoOp ==
    [][(/\ pc = "enforce" /\ pc' # "enforce" /\ ~MissingCountTag(params)
        /\ Cardinality(TagMatched) = params.exact_count) =>
          /\ insts' = insts /\ spots' = spots
          /\ calls' = Append(calls, Call("get_all_instances", <<>>, 0))
          /\ \A j \in 1..Len(calls') : ~Mutating(calls'[j])
          /\ pc' = "done"
          /\ out'.kind = "result" /\ ~out'.changed
          /\ out'.instances = <<>> /\ out'.instance_ids = <<>>
          /\ Range(Ids(out'.tagged_instances)) = {InstanceId(k) : k \in TagMatched}
          /\ Len(out'.tagged_instances) = Cardinality(TagMatched)]_vars

C29_Witness ==
    /\ ExactDone /\ ~out.changed /\ Len(out.tagged_instances) = 2
    /\ params.exact_count = 2 /\ out.instances = <<>>
    /\ \E k \in 1..Len(insts) : insts[k].tag /\ insts[k].state # "running"
\* startstop_instances has gone through its first loop without an error
StartStopLooped ==
    /\ params.mode \in {"running", "stopped"}
    /\ pc \in {"startstop_wait", "startstop_check", "done"}

\* the instances instance_ids and instance_tags select, at the provider
Reconciled ==
    {k \in 1..Len(insts) :
        /\ params.instance_ids = <<>> \/ InstanceId(k) \in Range(params.instance_ids)
        /\ params.instance_tags = None \/ insts[k].tag}

ChangingCalls ==
    SelectSeq(calls, LAMBDA c : c.op \in {"modify_attribute", "start", "stop"})

\* no instance is on its way from one state to another
Converged ==
    \A k \in 1..Len(insts) :
        insts[k].state \notin {"pending", "stopping", "shutting-down"}

\* C30: once startstop_instances is through its first loop, every instance
\* selected has the two attributes as the parameters give them, whether or
\* not it was started or stopped, and changed is true if and only if a
\* modify_attribute, start or stop call was issued; run again with the same
\* parameters after a run that returned and whose transitions have ended,
\* it issues no such call, changes no instance and returns changed = false.
C30_ChangedAndIdempotent ==
    [][/\ StartStopLooped' =>
            /\ (ss.changed <=> ChangingCalls # <<>>)'
            /\ (\A k \in Reconciled :
                    /\ insts[k].sourceDestCheck = params.source_dest_check
                    /\ insts[k].disableApiTermination = params.termination_protection)'
            /\ (pc = "done" => out.changed = ss.changed)'
       /\ (/\ pc = "startstop" /\ pc' # "startstop"
           /\ runs = 2 /\ prev.kind = "result" /\ Converged) =>
            /\ insts' = insts
            /\ \A j \in 1..Len(calls') : ~Mutating(calls'[j])
            /\ pc' # "failed" /\ ~ss'.changed
            /\ pc' = "done" => ~out'.changed]_vars

C30_Witness ==
    /\ pc = "done" /\ runs = 2 /\ params.mode = "running"
    /\ prev.kind = "result" /\ prev.changed
    /\ out.kind = "result" /\ ~out.changed
    /\ ChangingCalls = <<>> /\ calls # <<>>
    /\ Cardinality(Reconciled) = 2

C30_WitnessAttributesOnly ==
    /\ pc = "done" /\ runs = 1 /\ params.mode = "running" /\ out.changed
    /\ Issued("start") = <<>> /\ Len(Issued("modify_attribute")) = 2
AbortFailures == {"Unable to terminate instance", "Unable to change state for instance"}

\* the calls that change the state of an instance
StateCalls == SelectSeq(calls, LAMBDA c : c.op \in {"terminate_instances", "start", "stop"})

\* the provider refuses call c on the instance as it is now: terminate on a
\* running or stopped instance with disableApiTermination, start or stop on
\* a terminated instance
RefusedCall(c) ==
    LET inst == insts[IndexOf(c.ids[1])]
    IN IF c.op = "terminate_instances"
       THEN inst.disableApiTermination /\ inst.state \in {"running", "stopped"}
       ELSE inst.state \in {"terminated", "shutting-down"}

\* the instance of call c is as the call has left it
Mutated(c) ==
    LET inst == insts[IndexOf(c.ids[1])]
    IN IF c.op = "terminate_instances" THEN inst.state \in {"shutting-down", "terminated"}
       ELSE IF c.op = "start" THEN inst.state \in {"pending", "running"}
       ELSE inst.state \in {"stopping", "stopped"}

\* C31: a terminate, start or stop call the provider refuses is the last call
\* of the invocation, which ends in failure with it: no call follows for the
\* other instances of the batch, and the instances of the calls before it
\* stay as those calls have left them, no call being issued to undo them.
C31_AbortsAtFirstRefusal ==
    /\ \A j \in 1..Len(StateCalls) :
          IF RefusedCall(StateCalls[j])
          THEN /\ j = Len(StateCalls) /\ Last(calls) = StateCalls[j]
               /\ pc = "failed" /\ out.msg \in AbortFailures
          ELSE Mutated(StateCalls[j])
    /\ out.msg \in AbortFailures =>
          /\ StateCalls # <<>> /\ RefusedCall(Last(StateCalls))
          /\ \A i, j \in 1..Len(StateCalls) :
                i # j => StateCalls[i].ids # StateCalls[j].ids
          /\ \A j \in 1..Len(StateCalls) :
                StateCalls[j].op = (IF params.mode = "absent" THEN "terminate_instances"
                                    ELSE IF params.mode = "running" THEN "start"
                                    ELSE "stop")

\* one instance changed, the next refused, a third of the batch left alone
C31_Witness ==
    /\ out.msg = "Unable to terminate instance"
    /\ Len(params.instance_ids) = 3 /\ Len(StateCalls) = 2
    /\ Mutated(StateCalls[1])
    /\ \A k \in 1..Len(insts) : insts[k].state # "terminated"

C31_WitnessStart ==
    /\ out.msg = "Unable to change state for instance" /\ params.mode = "running"
    /\ Len(params.instance_ids) = 3 /\ Len(StateCalls) = 2
    /\ Mutated(StateCalls[1])
\* the module stopped on a name that was never bound, not on fail_json
NameErrors == {"NameError: name 'instids' is not defined",
               "NameError: name 'res_list' is not defined"}

\* C32: with spot_price and without wait, once the spot request is submitted
\* create_instances ends with a result that has changed = true or with a
\* failure it reports, never on the wait loop or the tagging reading instids
\* that were never set.
C32_SpotNoWaitDefined ==
    (params.spot_price /\ ~params.wait /\ SpotSubmitted /\ Ended) =>
        /\ out.msg \notin NameErrors
        /\ \/ out.kind = "result" /\ out.changed
           \/ out.kind = "failed"
\* the keys entry x of a tag list speaks of
EntryKeys(x) == IF x.type = "dict" THEN DOMAIN x.dict ELSE {x.str}

\* the test entry x of a tag list asks of an instance: a bare key asks for
\* the key to exist, a key with a value for that value (blank for none)
EntryHolds(inst, x) ==
    IF x.type = "dict"
    THEN \A k \in DOMAIN x.dict :
            k \in DOMAIN inst.tags /\ inst.tags[k] = SetNoneToBlank(x.dict)[k]
    ELSE x.str \in DOMAIN inst.tags

\* a list whose entries are on different keys
DistinctKeys(items) ==
    \A i, j \in 1..Len(items) : i # j => EntryKeys(items[i]) \cap EntryKeys(items[j]) = {}

\* C33: for a tag list the filters built match a running instance exactly
\* when every entry of the list holds of it: each bare key exists and each
\* key=value entry has that value, so that a list with several bare keys
\* constrains all of them.
C33_ListConstrainsAll ==
    LET t == LiteralEval(ft.tags)
    IN (ft.done /\ t.type = "list" /\ DistinctKeys(t.list)) =>
          (FilterMatches(ft.instance, ft.filters)
             <=> /\ ft.instance.state = "running"
                 /\ \A j \in 1..Len(t.list) : EntryHolds(ft.instance, t.list[j]))
\* running or stopped is asked for without a list of identifiers that has
\* an identifier in it
NoIdentifiers ==
    /\ params.mode \in {"running", "stopped"}
    /\ ~params.ids_is_list \/ params.instance_ids = <<>>

InputFailures == {"instance_ids should be a list of instances, aborting",
                  "running list needs to be a list of instances or set of tags to run"}

\* the instances that carry the tag instance_tags asks for
Tagged == {k \in 1..Len(insts) : insts[k].tag}

\* C34: without identifiers and without instance_tags the invocation ends in
\* a validation failure with no provider call issued; without identifiers
\* and with instance_tags startstop_instances goes on, reads the instances
\* with the tag filter and handles those that carry the tag and no other.
C34_IdentifiersOrTags ==
    [][/\ (NoIdentifiers /\ params.instance_tags = None /\ pc \notin {"idle", "main"})' =>
            (\/ pc = "startstop" /\ calls = <<>>
             \/ pc = "failed" /\ out.msg \in InputFailures /\ calls = <<>>)'
       /\ (/\ NoIdentifiers /\ params.instance_tags # None
           /\ pc = "startstop" /\ pc' # "startstop") =>
            /\ out'.msg \notin InputFailures
            /\ calls'[1].op = "get_all_instances"
            /\ \A j \in 2..Len(calls') :
                  /\ calls'[j].op \in {"modify_attribute", "start", "stop"}
                  /\ \E k \in Tagged : calls'[j].ids = <<InstanceId(k)>>
            /\ \A k \in 1..Len(insts) : k \notin Tagged => insts'[k] = insts[k]
            /\ pc' # "failed" =>
                  \A k \in Tagged :
                     /\ insts'[k].sourceDestCheck = params.source_dest_check
                     /\ insts[k].state # params.mode =>
                           \E j \in 2..Len(calls') :
                              /\ calls'[j].op \in {"start", "stop"}
                              /\ calls'[j].ids = <<InstanceId(k)>>]_vars

C34_Witness ==
    /\ pc = "failed" /\ params.mode = "running" /\ params.ids_is_list
    /\ params.instance_ids = <<>> /\ params.instance_tags = None
    /\ out.msg = "instance_ids should be a list of instances, aborting"
    /\ calls = <<>> /\ Len(insts) = 2

C34_WitnessTags ==
    /\ pc = "done" /\ params.mode = "running" /\ ~params.ids_is_list
    /\ params.instance_tags # None /\ out.changed
    /\ Len(Issued("start")) = 1 /\ Cardinality(Tagged) = 1 /\ Len(insts) = 2
    /\ \E k \in 1..Len(insts) : ~insts[k].tag /\ insts[k].state = "stopped"
====
